---------------------------- MODULE Spec2Model ----------------------------
(***************************************************************************)
(* State-machine model of the AI-BUILDER remodel configurator:             *)
(*   - the build page's background refinement scheduler                    *)
(*     (src/web/app/build/page.tsx),                                       *)
(*   - the final-render job life cycle: render route, worker route, job    *)
(*     status route, TTL store and the page's polling loop,                *)
(*   - the wizard session's overlay precompute (WizardProvider).           *)
(* Each part has its own specification over its own variables.            *)
(***************************************************************************)
EXTENDS Integers, Sequences, FiniteSets, TLC

VARIABLES
    \* ---- refinement scheduler (build page) ----
    page,             \* the wizard page that is mounted: "build" or "prompt"
    selections,       \* page state `selections` (one of Sels)
    refinedBaseSrc,   \* page state: adopted refined image, NoImg = null
    refining,         \* page state
    refineError,      \* page state, "null" = null
    lastRefinedKey,   \* page state, NoKey = null
    refineCache,      \* ref: Map key -> image (NoImg = absent)
    refineAbort,      \* ref: id of the current AbortController, 0 = null
    timers,           \* pending window.setTimeout callbacks
    effectTimer,      \* timer id the last effect run returned a cleanup for, 0 = none
    changes,          \* number of effect runs so far (timer / controller ids)
    reqs,             \* /api/refine requests whose continuation has not run yet
    lastWrite,        \* history: the last state mutation made by a request
    lastPost,         \* history: the last POST /api/refine issued
    window,           \* history: keys selected since the debounce last was quiet
    windowPosts,      \* history: POSTs issued for the current window
    lastChange,       \* history: the key of the last selection change, and whether
                      \* it was found in refineCache
    refineEv,         \* history: what the step just taken did (NoRefineEv: nothing)
    \* ---- final-render jobs: routes, store, worker, polling page ----
    env,              \* process.env: NODE_ENV = production, WORKER_SECRET set
    now,              \* Date.now() in seconds
    mem,              \* the TTL key-value store, key job:<id>
    nextJob,          \* number of job ids handed out so far
    posts,            \* number of POST /api/worker requests sent so far
    extPosts,         \* of these, the ones not sent by the render route
    msgs,             \* POST /api/worker requests not yet handled
    workers,          \* worker invocations past admission
    renderCall,       \* the page's POST /api/render in flight
    jobId,            \* page state (0 = null)
    isRendering,      \* page state
    afterSrc,         \* page state: result image (0 = null)
    error,            \* page state ("null" = null)
    mounted,          \* the build page is mounted
    interval,         \* job id the polling effect's setInterval runs for (0 = none)
    polls,            \* GET /api/job/:id requests of tick() in flight
    renderClicks,     \* history: runRender calls
    written,          \* history: status last written per job id
    firstTerminal,    \* history: the first terminal record stored per job id
    storedAt,         \* history: time of the last write per job id (-1 never)
    created,          \* history: records created per job id by the render route
    dispatches,       \* history: worker requests sent by the render route per job id
    seenTerminal,     \* history: tick() saw completed/failed for the current jobId
    ev,               \* history: what the step just taken did (NoEv: nothing)
    \* ---- wizard session: scan and overlay precompute (WizardProvider) ----
    beforeSrc,        \* session: the picked photo (0 = null, else the file's number)
    modules,          \* session: sceneGraph and modules, as the number of the file
                      \* whose scan gave them (0 = null / [])
    scanStatus,       \* session
    maskOverrides,    \* session: version of the overrides object (0 = {})
    overlayStatus,    \* session
    overlayProgress,  \* session: in units of 1 / MaxAssets
    overlayAssets,    \* session: per feature, the inputs its stored assets were
                      \* baked from ({} = {})
    inflightScan,     \* ref: file whose scan is in flight (0 = null)
    effectDue,        \* a dependency of the overlay effect changed since it last ran
    builds,           \* buildOverlayAssetsClient calls in flight
    buildCount,       \* history: builds started so far (build ids)
    picks,            \* history: files picked so far
    overrides,        \* history: setMaskOverrides calls so far
    overrideKey,      \* history: the element whose override the last call set
    rebuilds,         \* history: rebuildOverlays calls that started a build
    epoch,            \* history: invalidations so far (scan starts, mask overrides)
    lastOverlayWrite, \* history: the last write a build made into the session
    \* ---- one run of buildOverlayAssetsClient ----
    args,             \* the call's arguments: modules, scene, maskOverrides
    bakePc,           \* where the run stands: phase, module index, option index,
                      \* the module's maskCanvas and outByOpt
    done,             \* local `done`
    total,            \* local `total`
    assets,           \* local `assets`: featureId -> outByOpt, as a set of entries
    reported,         \* history: the values passed to onProgress, in order
    bakeEv,           \* history: what the step just taken did
    \* ---- the build page's live compositor ----
    drawArgs,         \* what draw() reads: modules, selections, sceneGraph,
                      \* maskOverrides, and the session's ready overlay assets
    loaded,           \* images of textureCache / maskImgCache that are complete
    requested,        \* images created by ensureImg whose onload (draw) is pending
    canvas,           \* the preview canvas: per pixel, the fills it shows
    drawn,            \* history: what the last pass drew, per element
    drew,             \* history: a pass has run
    \* ---- one call of a library function or route handler ----
    input,            \* the arguments of the call
    output,           \* what the call has returned or done so far
    world             \* what the call reads and writes outside itself: stores,
                      \* the clock, the environment

refineVars == <<page, selections, refinedBaseSrc, refining, refineError, lastRefinedKey,
                refineCache, refineAbort, timers, effectTimer, changes, reqs,
                lastWrite, lastPost, window, windowPosts, lastChange, refineEv>>

jobVars == <<env, now, mem, nextJob, posts, extPosts, msgs, workers, renderCall,
             jobId, isRendering, afterSrc, error, mounted, interval, polls,
             renderClicks, written, firstTerminal, storedAt, created, dispatches,
             seenTerminal, ev>>

overlayVars == <<beforeSrc, modules, scanStatus, maskOverrides, overlayStatus,
                 overlayProgress, overlayAssets, inflightScan, effectDue, builds,
                 buildCount, picks, overrides, overrideKey, rebuilds, epoch,
                 lastOverlayWrite>>

bakeVars == <<args, bakePc, done, total, assets, reported, bakeEv>>

drawVars == <<drawArgs, loaded, requested, canvas, drawn, drew>>

callVars == <<input, output, world>>

vars == <<refineVars, jobVars, overlayVars, bakeVars, drawVars, callVars>>

\* What the actions of one part leave alone.
notRefine == <<jobVars, overlayVars, bakeVars, drawVars, callVars>>
notJobs == <<refineVars, overlayVars, bakeVars, drawVars, callVars>>
notOverlay == <<refineVars, jobVars, bakeVars, drawVars, callVars>>
notBake == <<refineVars, jobVars, overlayVars, drawVars, callVars>>
notDraw == <<refineVars, jobVars, overlayVars, bakeVars, callVars>>
notCall == <<refineVars, jobVars, overlayVars, bakeVars, drawVars>>

-----------------------------------------------------------------------------
(* Bounds *)
MaxChanges == 4
MaxRenders == 2
MaxExternalPosts == 1
MaxTicks == 2
MaxPolls == 1
MaxPicks == 2
MaxOverrides == 1
MaxRebuilds == 1
MaxAssets == 2
MaxModules == 2
MaxOptions == 2
MaxMaskTicks == 2
MaxClock == 49
MaxSide == 6
MaxEdits == 4
MaxEnqueued == 1

-----------------------------------------------------------------------------
(* Refinement scheduler: src/web/app/build/page.tsx                        *)

DebounceMs == 850

Sels == {"A", "B", "C"}
ScanId == "scan1"
NoScan == "null"

NoKey == [scan |-> NoScan, seed |-> "", variant |-> ""]

\* currentRefineKey: `${scanId}:${hashString(seed)}:low`, null without a scan.
currentRefineKey(scan, sel) ==
    IF scan = NoScan THEN NoKey
    ELSE [scan |-> scan, seed |-> sel, variant |-> "low"]

Keys == {currentRefineKey(ScanId, s) : s \in Sels}

NoImg == [of |-> NoKey]
\* The image /api/refine synthesises for a request body.
RefineImage(key) == [of |-> key]

NoWrite == [kind |-> "none", key |-> NoKey, cur |-> NoKey, aborted |-> FALSE]
NoPost == [key |-> NoKey, cur |-> NoKey, window |-> <<>>]
NoRefineEv == [kind |-> "none", key |-> NoKey, inFlight |-> FALSE, cached |-> FALSE]
RefineEv(kind, key) == [kind |-> kind, key |-> key, inFlight |-> FALSE, cached |-> FALSE]

\* The catch block (lines 320-324) for an error that is not an AbortError.
RefineCatchSilent(message) == [refining |-> FALSE, refineError |-> "null"]
RefineCatch(message) == [refining |-> FALSE, refineError |-> message]

\* window.clearTimeout(t)
ClearTimeoutLeak(ts, id) == ts
ClearTimeout(ts, id) == {t \in ts : t.id # id}

\* AbortController.abort() as seen by the request that carries its signal.
AbortSignal(r, ac) == IF r.id = ac THEN [r EXCEPT !.aborted = TRUE] ELSE r

RefineStart ==
    /\ page = "build"
    /\ selections = "A"
    /\ refinedBaseSrc = NoImg
    /\ refining = TRUE
    /\ refineError = "null"
    /\ lastRefinedKey = NoKey
    /\ refineCache = [k \in Keys |-> NoImg]
    /\ refineAbort = 0
    /\ timers = {[id |-> 1, key |-> currentRefineKey(ScanId, "A"), remaining |-> DebounceMs]}
    /\ effectTimer = 1
    /\ changes = 1
    /\ reqs = {}
    /\ lastWrite = NoWrite
    /\ lastPost = NoPost
    /\ window = <<currentRefineKey(ScanId, "A")>>
    /\ windowPosts = 0
    /\ lastChange = [key |-> currentRefineKey(ScanId, "A"), hit |-> FALSE]
    /\ refineEv = NoRefineEv

\* The user picks an option: setSelections, re-render, then the refinement
\* effect's cleanup and body (lines 276-328).
SelectionChange(sel) ==
    LET key == currentRefineKey(ScanId, sel)
        cleared == ClearTimeout(timers, effectTimer)
        cached == refineCache[key]
        id == changes + 1
    IN  /\ page = "build"
        /\ changes < MaxChanges
        /\ selections' = sel
        /\ changes' = id
        /\ refineError' = "null"
        /\ IF cached # NoImg
           THEN /\ refinedBaseSrc' = cached
                /\ lastRefinedKey' = key
                /\ refining' = FALSE
                /\ timers' = cleared
                /\ effectTimer' = 0
           ELSE /\ refining' = TRUE
                /\ timers' = cleared \cup {[id |-> id, key |-> key, remaining |-> DebounceMs]}
                /\ effectTimer' = id
                /\ UNCHANGED <<refinedBaseSrc, lastRefinedKey>>
        /\ window' = IF cached # NoImg THEN <<>>
                     ELSE IF timers = {} THEN <<key>> ELSE Append(window, key)
        /\ windowPosts' = IF timers = {} \/ cached # NoImg THEN 0 ELSE windowPosts
        /\ lastChange' = [key |-> key, hit |-> cached # NoImg]
        /\ refineEv' = RefineEv("change", key)
        /\ UNCHANGED <<refineCache, refineAbort, reqs, lastWrite, lastPost>>
        /\ UNCHANGED page
        /\ UNCHANGED notRefine

\* Time passes: half a debounce period, while no pending timer is due.
Tick ==
    /\ timers # {}
    /\ \A t \in timers : t.remaining > 0
    /\ timers' = {[t EXCEPT !.remaining = t.remaining - DebounceMs \div 2] : t \in timers}
    /\ refineEv' = NoRefineEv
    /\ UNCHANGED <<selections, refinedBaseSrc, refining, refineError, lastRefinedKey,
                   refineCache, refineAbort, effectTimer, changes, reqs,
                   lastWrite, lastPost, window, windowPosts, lastChange>>
    /\ UNCHANGED page
    /\ UNCHANGED notRefine

\* The debounce timer's callback up to its first await (lines 292-310), and
\* the continuation of the request it aborts: a fetch still pending rejects
\* with AbortError (line 321 returns); a body still being read rejects too,
\* but res.json().catch(() => ({})) swallows that (line 311) and the code
\* goes on to throw an ordinary Error (lines 312-314, 322-323).
TimerFire(t) ==
    LET marked == {AbortSignal(r, refineAbort) : r \in reqs}
        hit == {r \in marked : r.aborted}
        swallowed == {r \in hit : r.phase = "json"}
        cur == currentRefineKey(ScanId, selections)
    IN  /\ t \in timers
        /\ t.remaining <= 0
        /\ timers' = timers \ {t}
        /\ refineAbort' = t.id
        /\ reqs' = (marked \ hit) \cup
                   {[id |-> t.id, key |-> t.key, phase |-> "fetch", ok |-> FALSE, aborted |-> FALSE]}
        /\ IF swallowed # {}
           THEN LET r == CHOOSE x \in swallowed : TRUE
                    c == RefineCatch(IF r.ok THEN "Refine returned no image"
                                     ELSE "Refine failed")
                IN  /\ refining' = c.refining
                    /\ refineError' = c.refineError
                    /\ lastWrite' = [kind |-> "error", key |-> r.key, cur |-> cur, aborted |-> TRUE]
           ELSE UNCHANGED <<refining, refineError, lastWrite>>
        /\ lastPost' = [key |-> t.key, cur |-> cur, window |-> window]
        /\ windowPosts' = windowPosts + 1
        /\ refineEv' = [kind |-> "post", key |-> t.key,
                         inFlight |-> \E r \in reqs : r.key = t.key,
                         cached |-> refineCache[t.key] # NoImg]
        /\ UNCHANGED <<selections, refinedBaseSrc, lastRefinedKey, refineCache,
                       effectTimer, changes, window, lastChange>>
        /\ UNCHANGED page
        /\ UNCHANGED notRefine

\* fetch resolves with the response head (line 299): res.ok is known.
FetchResolves(r, ok) ==
    /\ r \in reqs
    /\ r.phase = "fetch"
    /\ reqs' = (reqs \ {r}) \cup {[r EXCEPT !.phase = "json", !.ok = ok]}
    /\ refineEv' = NoRefineEv
    /\ UNCHANGED <<selections, refinedBaseSrc, refining, refineError, lastRefinedKey,
                   refineCache, refineAbort, timers, effectTimer, changes,
                   lastWrite, lastPost, window, windowPosts, lastChange>>
    /\ UNCHANGED page
    /\ UNCHANGED notRefine

\* fetch rejects with a network error: the catch block (lines 320-324).
FetchRejects(r) ==
    /\ r \in reqs
    /\ r.phase = "fetch"
    /\ reqs' = reqs \ {r}
    /\ refining' = RefineCatch("Failed to fetch").refining
    /\ refineError' = RefineCatch("Failed to fetch").refineError
    /\ lastWrite' = [kind |-> "neterror", key |-> r.key,
                     cur |-> currentRefineKey(ScanId, selections), aborted |-> r.aborted]
    /\ refineEv' = RefineEv("fail", r.key)
    /\ UNCHANGED <<selections, refinedBaseSrc, lastRefinedKey, refineCache, refineAbort,
                   timers, effectTimer, changes, lastPost, window, windowPosts, lastChange>>
    /\ UNCHANGED page
    /\ UNCHANGED notRefine

\* res.json() resolves and the rest of the callback runs (lines 311-319),
\* or throws into the catch block (lines 320-324).
BodyParsed(r) ==
    /\ r \in reqs
    /\ r.phase = "json"
    /\ reqs' = reqs \ {r}
    /\ IF r.ok
       THEN /\ refineCache' = [refineCache EXCEPT ![r.key] = RefineImage(r.key)]
            /\ refinedBaseSrc' = RefineImage(r.key)
            /\ lastRefinedKey' = r.key
            /\ refining' = FALSE
            /\ lastWrite' = [kind |-> "adopt", key |-> r.key,
                             cur |-> currentRefineKey(ScanId, selections),
                             aborted |-> r.aborted]
            /\ refineEv' = RefineEv("adopt", r.key)
            /\ UNCHANGED refineError
       ELSE /\ refining' = RefineCatch("Refine failed").refining
            /\ refineError' = RefineCatch("Refine failed").refineError
            /\ refineEv' = RefineEv("fail", r.key)
            /\ lastWrite' = [kind |-> "error", key |-> r.key,
                             cur |-> currentRefineKey(ScanId, selections),
                             aborted |-> r.aborted]
            /\ UNCHANGED <<refineCache, refinedBaseSrc, lastRefinedKey>>
    /\ UNCHANGED <<selections, refineAbort, timers, effectTimer, changes,
                   lastPost, window, windowPosts, lastChange>>
    /\ UNCHANGED page
    /\ UNCHANGED notRefine

\* The Back button of the build page (line 658: router.push("/prompt")): the
\* Page component unmounts.  The refinement effect's cleanup clears its timer
\* (line 327); the state and the refs of the instance (lines 184-199), the
\* refineCache Map among them, go with it.  A request still in flight is not
\* aborted: its continuation writes into the Map and the state of the
\* instance that is gone, which nothing reads any more.
BackToPrompt ==
    /\ page = "build"
    /\ changes < MaxChanges
    /\ page' = "prompt"
    /\ timers' = {}
    /\ effectTimer' = 0
    /\ reqs' = {}
    /\ refineAbort' = 0
    /\ refineCache' = [k \in Keys |-> NoImg]
    /\ refinedBaseSrc' = NoImg
    /\ lastRefinedKey' = NoKey
    /\ refining' = FALSE
    /\ refineError' = "null"
    /\ window' = <<>>
    /\ windowPosts' = 0
    /\ refineEv' = RefineEv("unmount", currentRefineKey(ScanId, selections))
    /\ UNCHANGED <<selections, changes, lastWrite, lastPost, lastChange>>
    /\ UNCHANGED notRefine

\* "Build my remodel" on the prompt page (prompt/page.tsx line 108:
\* router.push("/build")): a new Page instance mounts.  Its state starts from
\* the initialisers (lines 184-199: selections from the wizard, an empty
\* refineCache, no refined image) and the refinement effect runs (lines
\* 276-328): the lookup misses, so it starts the debounce timer.
BuildMyRemodelPage ==
    LET key == currentRefineKey(ScanId, selections)
        id == changes + 1
    IN  /\ page = "prompt"
        /\ page' = "build"
        /\ changes' = id
        /\ refining' = TRUE
        /\ timers' = {[id |-> id, key |-> key, remaining |-> DebounceMs]}
        /\ effectTimer' = id
        /\ window' = <<key>>
        /\ windowPosts' = 0
        /\ lastChange' = [key |-> key, hit |-> refineCache[key] # NoImg]
        /\ refineEv' = RefineEv("mount", key)
        /\ UNCHANGED <<selections, refinedBaseSrc, refineError, lastRefinedKey,
                       refineCache, refineAbort, reqs, lastWrite, lastPost>>

\* The mount as the refinement scheduler sees it, the session being empty.
BuildMyRemodel == BuildMyRemodelPage /\ UNCHANGED notRefine

RefineNext ==
    \/ \E sel \in Sels : SelectionChange(sel)
    \/ Tick
    \/ \E t \in timers : TimerFire(t)
    \/ \E r \in reqs, ok \in BOOLEAN : FetchResolves(r, ok)
    \/ \E r \in reqs : FetchRejects(r)
    \/ \E r \in reqs : BodyParsed(r)

\* The scheduler together with leaving the build page and coming back.
VisitNext ==
    \/ \E sel \in Sels : SelectionChange(sel)
    \/ Tick
    \/ \E t \in timers : TimerFire(t)
    \/ \E r \in reqs, ok \in BOOLEAN : FetchResolves(r, ok)
    \/ \E r \in reqs : FetchRejects(r)
    \/ \E r \in reqs : BodyParsed(r)
    \/ BackToPrompt
    \/ BuildMyRemodel

-----------------------------------------------------------------------------
(* Final-render jobs: POST /api/render (part_000), POST /api/worker        *)
(* (part_002), GET /api/job/:id, lib/store.ts and the page's polling loop  *)

\* setJob(job, 60 * 60): the record's time to live in seconds.
JobTtlSeconds == 3600

JobIds == 1..MaxRenders

\* Deployments: development, production with and without WORKER_SECRET.
Envs == {[production |-> FALSE, workerSecret |-> FALSE],
         [production |-> TRUE, workerSecret |-> TRUE],
         [production |-> TRUE, workerSecret |-> FALSE]}

NoJob == [id |-> 0, status |-> "none", result |-> 0, error |-> "", prepared |-> FALSE]
NoEntry == [value |-> NoJob, expiresAt |-> 0]
Terminal == {"completed", "failed"}

\* redisPipeline: an entry whose expiry has passed is gone before any command.
MemKeepExpired(m, id, t) == m
MemExpire(m, id, t) ==
    IF m[id] # NoEntry /\ m[id].expiresAt <= t THEN [m EXCEPT ![id] = NoEntry] ELSE m

\* getJob(id): the stored record, NoJob for null.
getJob(m, id, t) == MemExpire(m, id, t)[id].value

\* setJob(job, ttlSeconds): SET key value EX ttl.
setJob(m, job, ttl, t) ==
    [MemExpire(m, job.id, t) EXCEPT ![job.id] = [value |-> job, expiresAt |-> t + ttl]]

\* randomUUID(): an id no earlier job has.
ReusedJobId(n) == IF n = 0 THEN 1 ELSE n
FreshJobId(n) == n + 1

\* The worker route's admission (lines 84-90): in production the request must
\* carry the configured secret.
WorkerAuthorized(e, secret) == ~e.production \/ (e.workerSecret /\ secret)

\* GET /api/job/:id (lines 113-119 of the route): 404 for null, else the job.
JobStatusRoute(job) ==
    IF job = NoJob THEN [code |-> 404, job |-> NoJob] ELSE [code |-> 200, job |-> job]

\* tick() after its awaits (page.tsx lines 362-372): what it does to
\* afterSrc, error and isRendering.
tickUncancelled(resp, cancelled, cur) ==
    IF resp.code # 200 THEN cur
    ELSE IF resp.job.status = "completed" /\ resp.job.result # 0
         THEN [cur EXCEPT !.afterSrc = resp.job.result, !.isRendering = FALSE]
    ELSE IF resp.job.status = "failed"
         THEN [cur EXCEPT !.error = IF resp.job.error # "" THEN resp.job.error
                                    ELSE "Render failed",
                          !.isRendering = FALSE]
    ELSE cur
tick(resp, cancelled, cur) ==
    IF resp.code # 200 \/ cancelled THEN cur
    ELSE IF resp.job.status = "completed" /\ resp.job.result # 0
         THEN [cur EXCEPT !.afterSrc = resp.job.result, !.isRendering = FALSE]
    ELSE IF resp.job.status = "failed"
         THEN [cur EXCEPT !.error = IF resp.job.error # "" THEN resp.job.error
                                    ELSE "Render failed",
                          !.isRendering = FALSE]
    ELSE cur

NoTrans == [job |-> 0, from |-> "none", to |-> "none"]
NoTick == [job |-> 0, afterTerminal |-> FALSE, afterTeardown |-> FALSE]
NoGet == [id |-> 0, never |-> FALSE, elapsed |-> FALSE, code |-> 0, status |-> "none"]
NoPoll == [code |-> 0, status |-> "none", changed |-> FALSE]
\* ev.trans: a status written; ev.tick: a GET issued by tick(); ev.get: an
\* answer of the job status route; ev.poll: a response handled by tick().
NoEv == [trans |-> NoTrans, tick |-> NoTick, get |-> NoGet, poll |-> NoPoll]
NoCall == [phase |-> "idle", ok |-> FALSE, jobId |-> 0]

JobsStartWith(e) ==
    /\ env = e
    /\ now = 0
    /\ mem = [j \in JobIds |-> NoEntry]
    /\ nextJob = 0
    /\ posts = 0
    /\ extPosts = 0
    /\ msgs = {}
    /\ workers = {}
    /\ renderCall = NoCall
    /\ jobId = 0
    /\ isRendering = FALSE
    /\ afterSrc = 0
    /\ error = "null"
    /\ mounted = TRUE
    /\ interval = 0
    /\ polls = {}
    /\ renderClicks = 0
    /\ written = [j \in JobIds |-> "none"]
    /\ firstTerminal = [j \in JobIds |-> NoJob]
    /\ storedAt = [j \in JobIds |-> -1]
    /\ created = [j \in JobIds |-> 0]
    /\ dispatches = [j \in JobIds |-> 0]
    /\ seenTerminal = FALSE
    /\ ev = NoEv

JobsStart == \E e \in Envs : JobsStartWith(e)
JobsIdle == JobsStartWith([production |-> FALSE, workerSecret |-> FALSE])

\* await setJob(job, ttl) together with the history kept about it.
Store(job, ttl) ==
    /\ mem' = setJob(mem, job, ttl, now)
    /\ written' = [written EXCEPT ![job.id] = job.status]
    /\ ev' = [NoEv EXCEPT !.trans = [job |-> job.id, from |-> written[job.id],
                                      to |-> job.status]]
    /\ firstTerminal' = IF job.status \in Terminal /\ firstTerminal[job.id] = NoJob
                        THEN [firstTerminal EXCEPT ![job.id] = job]
                        ELSE firstTerminal
    /\ storedAt' = [storedAt EXCEPT ![job.id] = now]

\* The effect cleanup of the polling effect: cancelled = true, clearInterval.
CancelPolls(ps) == {[p EXCEPT !.cancelled = TRUE] : p \in ps}

\* runRender up to its await (page.tsx lines 330-342); the button is
\* disabled while isRendering (line 665).
RunRender ==
    /\ mounted
    /\ ~isRendering
    /\ renderCall.phase = "idle"
    /\ renderClicks < MaxRenders
    /\ renderClicks' = renderClicks + 1
    /\ error' = "null"
    /\ isRendering' = TRUE
    /\ afterSrc' = 0
    /\ jobId' = 0
    /\ interval' = 0
    /\ polls' = CancelPolls(polls)
    /\ seenTerminal' = FALSE
    /\ renderCall' = [phase |-> "sent", ok |-> FALSE, jobId |-> 0]
    /\ ev' = NoEv
    /\ UNCHANGED <<env, now, mem, nextJob, posts, extPosts, msgs, workers, mounted,
                   written, firstTerminal, storedAt, created, dispatches>>
    /\ UNCHANGED notJobs

\* POST /api/render (part_000 lines 9-72): the scan is found or not; a
\* found scan gives a queued job and one best-effort worker request.
RenderPost(scanFound) ==
    LET id == FreshJobId(nextJob)
        job == [id |-> id, status |-> "queued", result |-> 0, error |-> "", prepared |-> TRUE]
    IN  /\ renderCall.phase = "sent"
        /\ IF scanFound
           THEN /\ id \in JobIds
                /\ nextJob' = nextJob + 1
                /\ Store(job, JobTtlSeconds)
                /\ created' = [created EXCEPT ![id] = @ + 1]
                /\ posts' = posts + 1
                /\ msgs' = msgs \cup {[n |-> posts + 1, job |-> id, secret |-> env.workerSecret]}
                /\ dispatches' = [dispatches EXCEPT ![id] = @ + 1]
                /\ renderCall' = [phase |-> "done", ok |-> TRUE, jobId |-> id]
           ELSE /\ renderCall' = [phase |-> "done", ok |-> FALSE, jobId |-> 0]
                /\ ev' = NoEv
                /\ UNCHANGED <<nextJob, mem, written, firstTerminal, storedAt,
                               created, posts, msgs, dispatches>>
        /\ UNCHANGED <<interval, env, now, extPosts, workers, jobId, isRendering, afterSrc, error,
                       mounted, polls, renderClicks, seenTerminal>>
        /\ UNCHANGED notJobs

\* runRender after its awaits (lines 343-350); setJobId starts the polling
\* effect, which calls tick() at once (lines 379-380).
RenderResponse ==
    /\ renderCall.phase = "done"
    /\ renderCall' = NoCall
    /\ IF ~mounted
       THEN /\ ev' = NoEv
            /\ UNCHANGED <<jobId, interval, polls, error, isRendering>>
       ELSE IF renderCall.ok
       THEN /\ jobId' = renderCall.jobId
            /\ interval' = renderCall.jobId
            /\ polls' = polls \cup {[job |-> renderCall.jobId, phase |-> "sent",
                                     cancelled |-> FALSE,
                                     resp |-> [code |-> 0, job |-> NoJob]]}
            /\ ev' = [NoEv EXCEPT !.tick = [job |-> renderCall.jobId,
                                             afterTerminal |-> FALSE,
                                             afterTeardown |-> FALSE]]
            /\ UNCHANGED <<error, isRendering>>
       ELSE /\ error' = "Scan not found"
            /\ isRendering' = FALSE
            /\ ev' = NoEv
            /\ UNCHANGED <<jobId, interval, polls>>
    /\ UNCHANGED <<env, now, mem, nextJob, posts, extPosts, msgs, workers, afterSrc,
                   mounted, renderClicks, written, firstTerminal, storedAt,
                   created, dispatches, seenTerminal>>
    /\ UNCHANGED notJobs

\* setInterval(tick, 1500) fires (line 379): tick() up to its fetch.  The
\* interval lives until the effect's cleanup: a jobId change or unmount.
PollTick ==
    /\ interval # 0
    /\ Cardinality(polls) < MaxPolls
    /\ polls' = polls \cup {[job |-> interval, phase |-> "sent", cancelled |-> FALSE,
                             resp |-> [code |-> 0, job |-> NoJob]]}
    /\ ev' = [NoEv EXCEPT !.tick = [job |-> interval, afterTerminal |-> seenTerminal,
                                     afterTeardown |-> ~mounted]]
    /\ UNCHANGED <<interval, env, now, mem, nextJob, posts, extPosts, msgs, workers, renderCall,
                   jobId, isRendering, afterSrc, error, mounted, renderClicks, written, firstTerminal, storedAt, created, dispatches, seenTerminal>>
    /\ UNCHANGED notJobs

\* What a GET /api/job/:id answers now, with the facts about the id.
Answer(id) ==
    LET resp == JobStatusRoute(getJob(mem, id, now))
    IN  [resp |-> resp,
         get |-> [id |-> id,
                  never |-> storedAt[id] < 0,
                  elapsed |-> storedAt[id] >= 0 /\ now >= storedAt[id] + JobTtlSeconds,
                  code |-> resp.code,
                  status |-> resp.job.status]]

\* The job status route answers a poll of the page.
JobGet(p) ==
    /\ p \in polls
    /\ p.phase = "sent"
    /\ polls' = (polls \ {p}) \cup {[p EXCEPT !.phase = "answered", !.resp = Answer(p.job).resp]}
    /\ mem' = MemExpire(mem, p.job, now)
    /\ ev' = [NoEv EXCEPT !.get = Answer(p.job).get]
    /\ UNCHANGED <<interval, env, now, nextJob, posts, extPosts, msgs, workers, renderCall, jobId,
                   isRendering, afterSrc, error, mounted, renderClicks, written, firstTerminal, storedAt, created, dispatches, seenTerminal>>
    /\ UNCHANGED notJobs

\* The job status route answers a GET for an id no record was ever stored
\* under (a stale or mistyped link).
JobGetOther(id) ==
    /\ storedAt[id] < 0
    /\ mem' = MemExpire(mem, id, now)
    /\ ev' = [NoEv EXCEPT !.get = Answer(id).get]
    /\ UNCHANGED <<interval, env, now, nextJob, posts, extPosts, msgs, workers, renderCall, jobId,
                   isRendering, afterSrc, error, mounted, polls, renderClicks, written, firstTerminal, storedAt, created, dispatches, seenTerminal>>
    /\ UNCHANGED notJobs

\* tick() after its awaits (lines 361-376).
PollReceive(p) ==
    LET cur == [afterSrc |-> afterSrc, error |-> error, isRendering |-> isRendering]
        nxt == tick(p.resp, p.cancelled, cur)
    IN  /\ p \in polls
        /\ p.phase = "answered"
        /\ polls' = polls \ {p}
        /\ afterSrc' = nxt.afterSrc
        /\ error' = nxt.error
        /\ isRendering' = nxt.isRendering
        /\ seenTerminal' = (seenTerminal \/
                              (p.resp.code = 200 /\ ~p.cancelled
                                 /\ p.resp.job.status \in Terminal))
        /\ ev' = [NoEv EXCEPT !.poll = [code |-> p.resp.code,
                                         status |-> p.resp.job.status,
                                         changed |-> nxt # cur]]
        /\ UNCHANGED <<interval, env, now, mem, nextJob, posts, extPosts, msgs, workers, renderCall,
                       jobId, mounted, renderClicks, written, firstTerminal,
                       storedAt, created, dispatches>>
        /\ UNCHANGED notJobs

\* "Back to editing" (lines 857-860).
BackToEditing ==
    /\ mounted
    /\ afterSrc # 0
    /\ afterSrc' = 0
    /\ jobId' = 0
    /\ interval' = 0
    /\ polls' = CancelPolls(polls)
    /\ seenTerminal' = FALSE
    /\ ev' = NoEv
    /\ UNCHANGED <<env, now, mem, nextJob, posts, extPosts, msgs, workers, renderCall,
                   isRendering, error, mounted, renderClicks, written,
                   firstTerminal, storedAt, created, dispatches>>
    /\ UNCHANGED notJobs

\* The page unmounts: the polling effect's cleanup runs (lines 382-385).
Unmount ==
    /\ mounted
    /\ mounted' = FALSE
    /\ interval' = 0
    /\ polls' = CancelPolls(polls)
    /\ ev' = NoEv
    /\ UNCHANGED <<env, now, mem, nextJob, posts, extPosts, msgs, workers, renderCall,
                   jobId, isRendering, afterSrc, error, renderClicks, written,
                   firstTerminal, storedAt, created, dispatches, seenTerminal>>
    /\ UNCHANGED notJobs

\* Somebody other than the render route posts {jobId} to /api/worker, with
\* the deployment's x-worker-secret when there is one.
WorkerPostOther(j) ==
    /\ extPosts < MaxExternalPosts
    /\ created[j] > 0
    /\ extPosts' = extPosts + 1
    /\ posts' = posts + 1
    /\ msgs' = msgs \cup {[n |-> posts + 1, job |-> j, secret |-> env.workerSecret]}
    /\ ev' = NoEv
    /\ UNCHANGED <<interval, env, now, mem, nextJob, workers, renderCall, jobId, isRendering,
                   afterSrc, error, mounted, polls, renderClicks, written,
                   firstTerminal, storedAt, created, dispatches, seenTerminal>>
    /\ UNCHANGED notJobs

\* POST /api/worker up to "Mark processing" (part_002 lines 74-108).  The origin
\* check and OPENAI_API_KEY (lines 75-82) are taken as passing.
WorkerAdmit(m) ==
    LET job == getJob(mem, m.job, now)
    IN  /\ m \in msgs
        /\ msgs' = msgs \ {m}
        /\ IF ~WorkerAuthorized(env, m.secret) \/ job = NoJob
           THEN /\ mem' = IF WorkerAuthorized(env, m.secret)
                          THEN MemExpire(mem, m.job, now) ELSE mem
                /\ ev' = NoEv
                /\ UNCHANGED <<workers, written, firstTerminal, storedAt>>
           ELSE IF ~job.prepared
           THEN /\ Store([job EXCEPT !.status = "failed",
                                     !.error = "Job missing prepared image"],
                         JobTtlSeconds)
                /\ UNCHANGED workers
           ELSE /\ workers' = workers \cup {[n |-> m.n, job |-> m.job, snap |-> job,
                                             pc |-> "admitted"]}
                /\ ev' = NoEv
                /\ UNCHANGED <<mem, written, firstTerminal, storedAt>>
        /\ UNCHANGED <<interval, env, now, nextJob, posts, extPosts, renderCall, jobId, isRendering,
                       afterSrc, error, mounted, polls, renderClicks, created, dispatches,
                       seenTerminal>>
        /\ UNCHANGED notJobs

\* "Mark processing" (line 112): written from the snapshot read at admission.
WorkerMarkProcessing(w) ==
    /\ w \in workers
    /\ w.pc = "admitted"
    /\ Store([w.snap EXCEPT !.status = "processing", !.error = ""], JobTtlSeconds)
    /\ workers' = (workers \ {w}) \cup {[w EXCEPT !.pc = "synthesis"]}
    /\ UNCHANGED <<interval, env, now, nextJob, posts, extPosts, msgs, renderCall, jobId,
                   isRendering, afterSrc, error, mounted, polls, renderClicks, created,
                   dispatches, seenTerminal>>
    /\ UNCHANGED notJobs

\* The synthesis call returns an image (lines 129-175) or something in the
\* try block throws (lines 176-183).
WorkerSynthesis(w, ok) ==
    /\ w \in workers
    /\ w.pc = "synthesis"
    /\ IF ok
       THEN Store([w.snap EXCEPT !.status = "completed", !.result = w.n, !.error = ""],
                  JobTtlSeconds)
       ELSE Store([w.snap EXCEPT !.status = "failed", !.error = "synthesis failed"],
                  JobTtlSeconds)
    /\ workers' = workers \ {w}
    /\ UNCHANGED <<interval, env, now, nextJob, posts, extPosts, msgs, renderCall, jobId,
                   isRendering, afterSrc, error, mounted, polls, renderClicks, created,
                   dispatches, seenTerminal>>
    /\ UNCHANGED notJobs

\* Half a record lifetime passes.  HTTP round trips and a worker run
\* (maxDuration = 300 s) are short against it, so none is pending meanwhile.
JobsTick ==
    /\ now < MaxTicks * (JobTtlSeconds \div 2)
    /\ msgs = {} /\ workers = {} /\ polls = {} /\ renderCall.phase = "idle"
    /\ now' = now + JobTtlSeconds \div 2
    /\ ev' = NoEv
    /\ UNCHANGED <<interval, env, mem, nextJob, posts, extPosts, msgs, workers, renderCall, jobId,
                   isRendering, afterSrc, error, mounted, polls, renderClicks, written, firstTerminal, storedAt, created, dispatches, seenTerminal>>
    /\ UNCHANGED notJobs

JobsNext ==
    \/ RunRender
    \/ \E found \in BOOLEAN : RenderPost(found)
    \/ RenderResponse
    \/ PollTick
    \/ \E p \in polls : JobGet(p)
    \/ \E id \in JobIds : JobGetOther(id)
    \/ \E p \in polls : PollReceive(p)
    \/ BackToEditing
    \/ Unmount
    \/ \E m \in msgs : WorkerAdmit(m)
    \/ \E w \in workers : WorkerMarkProcessing(w)
    \/ \E w \in workers, ok \in BOOLEAN : WorkerSynthesis(w, ok)
    \/ JobsTick

\* The same system with requests to the worker route that the render route
\* did not send.
WorkerNext ==
    \/ JobsNext
    \/ \E j \in JobIds : WorkerPostOther(j)

-----------------------------------------------------------------------------
(* Modules, scene elements and mask overrides, over a frame of three       *)
(* pixels                                                                  *)

Pixels == {"p1", "p2", "p3"}

\* buildModules (lib/builder/options.ts): two overlay modules and one
\* final_only module, each with its options 1..n.
Catalog ==
    {[featureId |-> "walls_paint", targetElementTypes |-> {"walls"}, previewMode |-> "overlay"],
     [featureId |-> "flooring", targetElementTypes |-> {"floor"}, previewMode |-> "overlay"],
     [featureId |-> "backsplash", targetElementTypes |-> {"backsplash"},
      previewMode |-> "final_only"]}

BuilderModules ==
    {[featureId |-> c.featureId, targetElementTypes |-> c.targetElementTypes,
      previewMode |-> c.previewMode, options |-> n] : c \in Catalog, n \in 0..MaxOptions}

ModuleLists ==
    {ms \in UNION {[1..n -> BuilderModules] : n \in 0..MaxModules} :
        \A i, j \in DOMAIN ms : i # j => ms[i].featureId # ms[j].featureId}

\* Scene elements as makeSceneGraph names them (scan/route.ts lines 73-79):
\* id `${type}_${index}`; points = the length of mask.points_norm, inside =
\* the pixels that polygon encloses.
SceneElements ==
    {[id |-> "walls_0", type |-> "walls", points |-> n, inside |-> {"p1"}] : n \in {2, 3}} \cup
    {[id |-> "floor_1", type |-> "floor", points |-> n, inside |-> {"p2"}] : n \in {2, 3}}

SceneGraphs ==
    {sc \in SUBSET SceneElements : \A e, f \in sc : e.id = f.id => e = f}

\* The keys of maskOverrides: the mask editor saves under an element id
\* (build/page.tsx lines 883-887); every override image covers pixel p3.
OverrideKeys == {"walls_0", "floor_1"}
OverrideInside == {"p3"}

\* The overlay features, and the overlay feature an element belongs to: the
\* module whose targetElementTypes hold the element's type.
OverlayFeatures == {c.featureId : c \in {x \in Catalog : x.previewMode = "overlay"}}
FeatureOfElement(id) ==
    CHOOSE f \in OverlayFeatures :
        \E c \in Catalog, e \in SceneElements :
            c.featureId = f /\ e.id = id /\ e.type \in c.targetElementTypes

-----------------------------------------------------------------------------
(* Wizard session: WizardProvider (part_004 lines 564-959), the upload      *)
(* page's onPick (upload/page.tsx lines 27-35)                              *)

\* What buildOverlayAssetsClient is given: baseSrc, scene and modules,
\* maskOverrides.
Inputs(base, mods, masks) == [base |-> base, modules |-> mods, masks |-> masks]

\* The dependency list of the overlay effect (line 839).
EffectDeps == <<overlayStatus, scanStatus, beforeSrc, modules, maskOverrides>>

\* The guard rebuildOverlays and the overlay effect share (lines 688-689,
\* 801-802).
ScanUsable == scanStatus = "ready" /\ beforeSrc # 0 /\ modules # 0

\* An entry of overlayAssets: the assets of one feature and what they were
\* baked from.
FeatureAssets(fs, inputs) == {[feature |-> f, inputs |-> inputs] : f \in fs}

\* What setMaskOverrides leaves of overlayAssets (line 642).
InvalidateAssetsOfFeature(as, key) == {a \in as : a.feature # FeatureOfElement(key)}
InvalidateAssets(as, key) == {}

NoOverlayWrite == [by |-> "none", kind |-> "none", started |-> 0, at |-> 0]

\* The effect's cleanup (lines 836-838): cancelled = true for the build the
\* last effect run started.
CancelEffectBuilds(bs) ==
    {IF b.by = "effect" THEN [b EXCEPT !.cancelled = TRUE] ELSE b : b \in bs}

OverlayStart ==
    /\ beforeSrc = 0
    /\ modules = 0
    /\ scanStatus = "idle"
    /\ maskOverrides = 0
    /\ overlayStatus = "idle"
    /\ overlayProgress = 0
    /\ overlayAssets = {}
    /\ inflightScan = 0
    /\ effectDue = FALSE
    /\ builds = {}
    /\ buildCount = 0
    /\ picks = 0
    /\ overrides = 0
    /\ overrideKey = "none"
    /\ rebuilds = 0
    /\ epoch = 0
    /\ lastOverlayWrite = NoOverlayWrite

\* onPick (upload/page.tsx lines 27-35): setBeforeSrc, then startScan up to
\* its first await (part_004 lines 724-742); a scan in flight is reused.
OnPick ==
    /\ picks < MaxPicks
    /\ picks' = picks + 1
    /\ beforeSrc' = picks + 1
    /\ IF inflightScan # 0
       THEN UNCHANGED <<scanStatus, modules, maskOverrides, overlayAssets, overlayStatus,
                        overlayProgress, inflightScan, epoch>>
       ELSE /\ scanStatus' = "scanning"
            /\ modules' = 0
            /\ maskOverrides' = 0
            /\ overlayAssets' = {}
            /\ overlayStatus' = "idle"
            /\ overlayProgress' = 0
            /\ inflightScan' = picks + 1
            /\ epoch' = epoch + 1
    /\ UNCHANGED <<builds, buildCount, overrides, overrideKey, rebuilds, lastOverlayWrite>>
    /\ effectDue' = (effectDue \/ EffectDeps' # EffectDeps)
    /\ UNCHANGED notOverlay

\* startScan after /api/scan and /api/options answered (lines 743-781, 792);
\* the options may list no module.
ScanSucceeds(withModules) ==
    /\ inflightScan # 0
    /\ modules' = IF withModules THEN inflightScan ELSE 0
    /\ maskOverrides' = 0
    /\ scanStatus' = "ready"
    /\ overlayAssets' = {}
    /\ overlayStatus' = "idle"
    /\ overlayProgress' = 0
    /\ inflightScan' = 0
    /\ UNCHANGED <<beforeSrc, builds, buildCount, picks, overrides, overrideKey, rebuilds, epoch, lastOverlayWrite>>
    /\ effectDue' = (effectDue \/ EffectDeps' # EffectDeps)
    /\ UNCHANGED notOverlay

\* startScan's catch block (lines 782-793).
ScanFails ==
    /\ inflightScan # 0
    /\ scanStatus' = "error"
    /\ overlayAssets' = {}
    /\ overlayStatus' = "idle"
    /\ overlayProgress' = 0
    /\ inflightScan' = 0
    /\ UNCHANGED <<beforeSrc, modules, maskOverrides, builds, buildCount, picks, overrides, overrideKey, rebuilds,
                   epoch, lastOverlayWrite>>
    /\ effectDue' = (effectDue \/ EffectDeps' # EffectDeps)
    /\ UNCHANGED notOverlay

\* resetAll (lines 608-614): setS(defaultSession()).
ResetAll ==
    /\ beforeSrc' = 0
    /\ modules' = 0
    /\ scanStatus' = "idle"
    /\ maskOverrides' = 0
    /\ overlayStatus' = "idle"
    /\ overlayProgress' = 0
    /\ overlayAssets' = {}
    /\ UNCHANGED <<inflightScan, builds, buildCount, picks, overrides, overrideKey, rebuilds, epoch, lastOverlayWrite>>
    /\ effectDue' = (effectDue \/ EffectDeps' # EffectDeps)
    /\ UNCHANGED notOverlay

\* setMaskOverrides (lines 637-647), called with the page's overrides after
\* the mask editor saved the mask of element `key` (build/page.tsx lines
\* 257-260, 883-887).
SetMaskOverridesKeepingProgress(key) ==
    /\ overrides < MaxOverrides
    /\ overrides' = overrides + 1
    /\ overrideKey' = key
    /\ maskOverrides' = overrides + 1
    /\ overlayAssets' = InvalidateAssets(overlayAssets, key)
    /\ overlayStatus' = "idle"
    /\ epoch' = epoch + 1
    /\ effectDue' = TRUE
    /\ UNCHANGED <<beforeSrc, modules, scanStatus, overlayProgress, inflightScan, builds, buildCount, picks,
                   rebuilds, lastOverlayWrite>>
    /\ UNCHANGED notOverlay
SetMaskOverrides(key) ==
    /\ overrides < MaxOverrides
    /\ overrides' = overrides + 1
    /\ overrideKey' = key
    /\ maskOverrides' = overrides + 1
    /\ overlayAssets' = InvalidateAssets(overlayAssets, key)
    /\ overlayStatus' = "idle"
    /\ overlayProgress' = 0
    /\ epoch' = epoch + 1
    /\ effectDue' = TRUE
    /\ UNCHANGED <<beforeSrc, modules, scanStatus, inflightScan, builds, buildCount, picks,
                   rebuilds, lastOverlayWrite>>
    /\ UNCHANGED notOverlay

\* The build page mounts on the session (BuildMyRemodelPage). Its state
\* maskOverrides starts as the session's map (build/page.tsx line 188), and
\* the effect of lines 257-260 runs after the first render and hands that
\* map to setMaskOverrides (part_004 lines 637-647): the session's map stays
\* what it was, and the overlay fields are reset.
MountBuildPage ==
    /\ BuildMyRemodelPage
    /\ maskOverrides' = maskOverrides
    /\ overlayAssets' = {}
    /\ overlayStatus' = "idle"
    /\ overlayProgress' = 0
    /\ UNCHANGED <<beforeSrc, modules, scanStatus, inflightScan, builds, buildCount, picks,
                   overrides, overrideKey, rebuilds, epoch, lastOverlayWrite>>
    /\ effectDue' = (effectDue \/ EffectDeps' # EffectDeps)
    /\ UNCHANGED <<jobVars, bakeVars, drawVars, callVars>>

\* React runs the overlay effect after a render in which one of its
\* dependencies changed: first the cleanup of its last run, then its body
\* (lines 799-839).
OverlayEffect ==
    /\ effectDue
    /\ IF overlayStatus = "idle" /\ ScanUsable
       THEN /\ overlayStatus' = "building"
            /\ overlayProgress' = 0
            /\ overlayAssets' = {}
            /\ buildCount' = buildCount + 1
            /\ builds' = CancelEffectBuilds(builds) \cup
                         {[id |-> buildCount + 1, by |-> "effect", whole |-> TRUE,
                           features |-> OverlayFeatures,
                           inputs |-> Inputs(beforeSrc, modules, maskOverrides),
                           started |-> epoch, cancelled |-> FALSE, done |-> 0]}
       ELSE /\ builds' = CancelEffectBuilds(builds)
            /\ UNCHANGED <<overlayStatus, overlayProgress, overlayAssets, buildCount>>
    /\ UNCHANGED <<beforeSrc, modules, scanStatus, maskOverrides, inflightScan, picks,
                   overrides, overrideKey, rebuilds, epoch, lastOverlayWrite>>
    /\ effectDue' = (EffectDeps' # EffectDeps)
    /\ UNCHANGED notOverlay

\* rebuildOverlays(featureId?) up to its await (lines 685-703): for every
\* module (featureId "undefined") or for the modules of one feature.
RebuildOverlays(featureId) ==
    /\ rebuilds < MaxRebuilds
    /\ overlayStatus # "building"
    /\ ScanUsable
    /\ rebuilds' = rebuilds + 1
    /\ overlayStatus' = "building"
    /\ overlayProgress' = 0
    /\ buildCount' = buildCount + 1
    /\ builds' = builds \cup
                 {[id |-> buildCount + 1, by |-> "rebuild",
                   whole |-> (featureId = "undefined"),
                   features |-> IF featureId = "undefined" THEN OverlayFeatures
                                ELSE {featureId},
                   inputs |-> Inputs(beforeSrc, modules, maskOverrides),
                   started |-> epoch, cancelled |-> FALSE, done |-> 0]}
    /\ effectDue' = TRUE
    /\ UNCHANGED <<beforeSrc, modules, scanStatus, maskOverrides, overlayAssets,
                   inflightScan, picks, overrides, overrideKey, epoch, lastOverlayWrite>>
    /\ UNCHANGED notOverlay

\* buildOverlayAssetsClient bakes one more asset and calls onProgress
\* (part_004 lines 419-420; the callbacks: lines 703 and 816-819).
BuildProgress(b) ==
    /\ b \in builds
    /\ b.done < MaxAssets
    /\ builds' = (builds \ {b}) \cup {[b EXCEPT !.done = b.done + 1]}
    /\ IF b.cancelled
       THEN UNCHANGED <<overlayProgress, overlayStatus, lastOverlayWrite>>
       ELSE /\ overlayProgress' = b.done + 1
            /\ overlayStatus' = "building"
            /\ lastOverlayWrite' = [by |-> b.by, kind |-> "progress",
                                    started |-> b.started, at |-> epoch]
    /\ UNCHANGED <<beforeSrc, modules, scanStatus, maskOverrides, overlayAssets,
                   inflightScan, buildCount, picks, overrides, overrideKey, rebuilds, epoch>>
    /\ effectDue' = (effectDue \/ EffectDeps' # EffectDeps)
    /\ UNCHANGED notOverlay

\* The build returns its assets: the last onProgress(1) (line 427) and the
\* caller's continuation (lines 706-712, 822-823).
BuildDone(b) ==
    /\ b \in builds
    /\ b.done = MaxAssets
    /\ builds' = builds \ {b}
    /\ IF b.cancelled
       THEN UNCHANGED <<overlayAssets, overlayStatus, overlayProgress, lastOverlayWrite>>
       ELSE /\ overlayAssets' =
                   IF b.whole
                   THEN FeatureAssets(b.features, b.inputs)
                   ELSE {a \in overlayAssets : a.feature \notin b.features} \cup
                        FeatureAssets(b.features, b.inputs)
            /\ overlayStatus' = "ready"
            /\ overlayProgress' = MaxAssets
            /\ lastOverlayWrite' = [by |-> b.by, kind |-> "result",
                                    started |-> b.started, at |-> epoch]
    /\ UNCHANGED <<beforeSrc, modules, scanStatus, maskOverrides, inflightScan,
                   buildCount, picks, overrides, overrideKey, rebuilds, epoch>>
    /\ effectDue' = (effectDue \/ EffectDeps' # EffectDeps)
    /\ UNCHANGED notOverlay

\* The build throws (an image fails to load): the caller's catch block
\* (lines 713-719, 824-833).
BuildFails(b) ==
    /\ b \in builds
    /\ builds' = builds \ {b}
    /\ IF b.cancelled
       THEN UNCHANGED <<overlayAssets, overlayStatus, overlayProgress, lastOverlayWrite>>
       ELSE /\ overlayStatus' = "error"
            /\ overlayAssets' = IF b.by = "effect" THEN {} ELSE overlayAssets
            /\ overlayProgress' = IF b.by = "effect" THEN 0 ELSE overlayProgress
            /\ lastOverlayWrite' = [by |-> b.by, kind |-> "error",
                                    started |-> b.started, at |-> epoch]
    /\ UNCHANGED <<beforeSrc, modules, scanStatus, maskOverrides, inflightScan,
                   buildCount, picks, overrides, overrideKey, rebuilds, epoch>>
    /\ effectDue' = (effectDue \/ EffectDeps' # EffectDeps)
    /\ UNCHANGED notOverlay

OverlayNext ==
    \/ OnPick
    \/ \E withModules \in BOOLEAN : ScanSucceeds(withModules)
    \/ ScanFails
    \/ ResetAll
    \/ \E key \in OverrideKeys : SetMaskOverrides(key)
    \/ OverlayEffect
    \/ \E featureId \in {"undefined"} \cup OverlayFeatures : RebuildOverlays(featureId)
    \/ \E b \in builds : BuildProgress(b)
    \/ \E b \in builds : BuildDone(b)
    \/ \E b \in builds : BuildFails(b)

-----------------------------------------------------------------------------
(* One run of buildOverlayAssetsClient (part_004 lines 259-429)            *)

NoCanvas == [from |-> "null", inside |-> {}]

\* buildMaskCanvas (lines 314-355); ctx2d: getContext("2d") gave a context.
buildMaskCanvas(m, scene, overridden, ctx2d) ==
    IF m.featureId \in overridden
    THEN IF ctx2d THEN [from |-> "override", inside |-> OverrideInside] ELSE NoCanvas
    ELSE LET elems == {e \in scene : e.type \in m.targetElementTypes}
         IN  IF elems = {} \/ ~ctx2d
             THEN NoCanvas
             ELSE [from |-> "polygons",
                   inside |-> UNION {e.inside : e \in {x \in elems : x.points >= 3}}]

\* Lines 283-284.
overlayModules(ms) == SelectSeq(ms, LAMBDA m : m.previewMode = "overlay")

RECURSIVE SumOptions(_)
SumOptions(ms) == IF ms = <<>> THEN 0 ELSE Head(ms).options + SumOptions(Tail(ms))

\* The argument of onProgress, total ? done / total : 1, as a fraction.
Progress(d, t) == IF t # 0 THEN [num |-> d, den |-> t] ELSE [num |-> 1, den |-> 1]

\* Line 366: what a module without a mask adds to done.
SkippedAdvanceNone(m) == 0
SkippedAdvance(m) == m.options

NoBakeEv == [kind |-> "none", before |-> 0, options |-> 0]
BakePc(phase, m, o, mask, out) ==
    [phase |-> phase, m |-> m, o |-> o, maskCanvas |-> mask, outByOpt |-> out]

BakeStartWith(a, phase) ==
    /\ args = a
    /\ bakePc = BakePc(phase, 1, 1, NoCanvas, {})
    /\ done = 0
    /\ total = 0
    /\ assets = {}
    /\ reported = <<>>
    /\ bakeEv = NoBakeEv

BakeArgs ==
    [modules : ModuleLists, scene : SceneGraphs, maskOverrides : SUBSET OverrideKeys]

BakeStart == \E a \in BakeArgs : BakeStartWith(a, "load")
BakeIdle == BakeStartWith([modules |-> <<>>, scene |-> {}, maskOverrides |-> {}], "idle")

\* The base image loads or fails to (lines 269-285).
BakeLoadBase(ok) ==
    /\ bakePc.phase = "load"
    /\ IF ok
       THEN /\ total' = SumOptions(overlayModules(args.modules))
            /\ bakePc' = [bakePc EXCEPT !.phase = "module"]
       ELSE /\ bakePc' = [bakePc EXCEPT !.phase = "thrown"]
            /\ UNCHANGED total
    /\ bakeEv' = NoBakeEv
    /\ UNCHANGED <<args, done, assets, reported>>
    /\ UNCHANGED notBake

\* The head of the loop over overlayModules (lines 362-373): the module's
\* mask is built; a module without a mask is skipped.
BakeModule(ctx2d) ==
    /\ bakePc.phase = "module"
    /\ bakePc.m <= Len(overlayModules(args.modules))
    /\ LET m == overlayModules(args.modules)[bakePc.m]
           maskCanvas == buildMaskCanvas(m, args.scene, args.maskOverrides, ctx2d)
       IN  IF maskCanvas = NoCanvas
           THEN /\ done' = done + SkippedAdvance(m)
                /\ reported' = Append(reported, Progress(done', total))
                /\ bakePc' = BakePc("module", bakePc.m + 1, 1, NoCanvas, {})
                /\ bakeEv' = [kind |-> "skip", before |-> done, options |-> m.options]
                /\ UNCHANGED assets
           ELSE /\ IF m.options = 0
                   THEN /\ assets' = assets \cup {[featureId |-> m.featureId, outByOpt |-> {}]}
                        /\ bakePc' = BakePc("module", bakePc.m + 1, 1, NoCanvas, {})
                   ELSE /\ bakePc' = BakePc("option", bakePc.m, 1, maskCanvas, {})
                        /\ UNCHANGED assets
                /\ bakeEv' = NoBakeEv
                /\ UNCHANGED <<done, reported>>
    /\ UNCHANGED <<args, total>>
    /\ UNCHANGED notBake

\* One pass of the loop over m.options (lines 375-422) and, after the last
\* option, assets[m.featureId] = outByOpt (line 424).
BakeOption(ctx2d) ==
    /\ bakePc.phase = "option"
    /\ LET m == overlayModules(args.modules)[bakePc.m]
           out == IF ctx2d
                  THEN bakePc.outByOpt \cup
                       {[opt |-> bakePc.o, from |-> bakePc.maskCanvas.from,
                         inside |-> bakePc.maskCanvas.inside]}
                  ELSE bakePc.outByOpt
       IN  /\ IF ctx2d
              THEN /\ done' = done + 1
                   /\ reported' = Append(reported, Progress(done', total))
                   /\ bakeEv' = [kind |-> "baked", before |-> done, options |-> 1]
              ELSE /\ bakeEv' = [kind |-> "nocontext", before |-> done, options |-> 1]
                   /\ UNCHANGED <<done, reported>>
           /\ IF bakePc.o = m.options
              THEN /\ assets' = assets \cup {[featureId |-> m.featureId, outByOpt |-> out]}
                   /\ bakePc' = BakePc("module", bakePc.m + 1, 1, NoCanvas, {})
              ELSE /\ bakePc' = [bakePc EXCEPT !.o = bakePc.o + 1, !.outByOpt = out]
                   /\ UNCHANGED assets
    /\ UNCHANGED <<args, total>>
    /\ UNCHANGED notBake

\* A texture or an override image fails to load (lines 295, 308): the run
\* rejects.
BakeThrows ==
    /\ \/ bakePc.phase = "option"
       \/ /\ bakePc.phase = "module"
          /\ bakePc.m <= Len(overlayModules(args.modules))
          /\ overlayModules(args.modules)[bakePc.m].featureId \in args.maskOverrides
    /\ bakePc' = [bakePc EXCEPT !.phase = "thrown"]
    /\ bakeEv' = NoBakeEv
    /\ UNCHANGED <<args, done, total, assets, reported>>
    /\ UNCHANGED notBake

\* After the loop: onProgress(1) and return assets (lines 427-428).
BakeReturn ==
    /\ bakePc.phase = "module"
    /\ bakePc.m > Len(overlayModules(args.modules))
    /\ reported' = Append(reported, [num |-> 1, den |-> 1])
    /\ bakePc' = [bakePc EXCEPT !.phase = "returned"]
    /\ bakeEv' = [kind |-> "final", before |-> done, options |-> 0]
    /\ UNCHANGED <<args, done, total, assets>>
    /\ UNCHANGED notBake

BakeNext ==
    \/ \E ok \in BOOLEAN : BakeLoadBase(ok)
    \/ \E ctx2d \in BOOLEAN : BakeModule(ctx2d)
    \/ \E ctx2d \in BOOLEAN : BakeOption(ctx2d)
    \/ BakeThrows
    \/ BakeReturn

-----------------------------------------------------------------------------
(* The live compositor: the draw() of the build page's preview effect      *)
(* (build/page.tsx lines 391-562), with debugMasks off                     *)

\* The preview of a feature's options (lib/builder/options.ts): colours for
\* walls_paint, textures for flooring.
PreviewKind(featureId) == IF featureId = "flooring" THEN "image" ELSE "color"

\* findSelectedOption (lines 144-147): the selected option, else the first
\* one; 0 = null.
findSelectedOption(m, sel) ==
    IF m.options = 0 THEN 0
    ELSE IF m.featureId \in DOMAIN sel /\ sel[m.featureId] \in 1..m.options
         THEN sel[m.featureId]
         ELSE 1

Texture(featureId, opt) == <<"texture", featureId, opt>>
MaskImage(id) == <<"mask", id>>

Blank == [p \in Pixels |-> {}]
\* fillRect over the whole frame, blended onto what is there (lines 500-509).
FillRect(cv, fill) == [p \in Pixels |-> cv[p] \cup {fill}]
\* drawImage of a mask under destination-in (lines 512-526): the canvas
\* keeps its content inside the mask only.
DestinationIn(cv, inside) == [p \in Pixels |-> IF p \in inside THEN cv[p] ELSE {}]

\* One pass of the loop over elems (lines 489-548).
ElementPass(st, m, opt, el, a, ld) ==
    LET filled == FillRect(st.canvas, [feature |-> m.featureId, opt |-> opt])
        mask == IF el.id \in a.maskOverrides
                THEN IF MaskImage(el.id) \in ld THEN "override" ELSE "none"
                ELSE IF el.points >= 3 THEN "polygon" ELSE "none"
        clipped == IF mask = "override" THEN DestinationIn(filled, OverrideInside)
                   ELSE IF mask = "polygon" THEN DestinationIn(filled, el.inside)
                   ELSE filled
    IN  [canvas |-> clipped,
         drawn |-> st.drawn \cup {[feature |-> m.featureId, opt |-> opt, element |-> el.id,
                                   mask |-> mask, source |-> "onthefly",
                                   inside |-> IF mask = "override" THEN OverrideInside
                                              ELSE IF mask = "polygon" THEN el.inside
                                              ELSE {}]},
         requested |-> IF el.id \in a.maskOverrides /\ MaskImage(el.id) \notin ld
                       THEN st.requested \cup {MaskImage(el.id)}
                       ELSE st.requested]

RECURSIVE ElementsPass(_, _, _, _, _, _)
ElementsPass(st, m, opt, elems, a, ld) ==
    IF elems = {} THEN st
    ELSE LET el == CHOOSE e \in elems : TRUE
         IN  ElementsPass(ElementPass(st, m, opt, el, a, ld), m, opt, elems \ {el}, a, ld)

\* The loop over modules (lines 470-549), from module i on.
RECURSIVE ModulesPass(_, _, _, _)
ModulesPass(st, i, a, ld) ==
    IF i > Len(a.modules) THEN st
    ELSE LET m == a.modules[i]
             opt == findSelectedOption(m, a.selections)
             elems == {e \in a.scene : e.type \in m.targetElementTypes}
         IN  IF m.previewMode # "overlay" \/ opt = 0 \/ elems = {}
             THEN ModulesPass(st, i + 1, a, ld)
             ELSE IF PreviewKind(m.featureId) = "image" /\ Texture(m.featureId, opt) \notin ld
                  THEN ModulesPass([st EXCEPT !.requested = @ \cup {Texture(m.featureId, opt)}],
                                   i + 1, a, ld)
                  ELSE ModulesPass(ElementsPass(st, m, opt, elems, a, ld), i + 1, a, ld)

\* draw() (lines 453-550): the canvas is cleared and every module drawn.
draw(a, ld, req) == ModulesPass([canvas |-> Blank, drawn |-> {}, requested |-> req], 1, a, ld)

DrawModuleLists == {ms \in ModuleLists : \A i \in DOMAIN ms : ms[i].options = MaxOptions}

DrawArgs ==
    [modules : DrawModuleLists,
     selections : [OverlayFeatures -> 1..MaxOptions],
     scene : SceneGraphs,
     maskOverrides : SUBSET OverrideKeys,
     ready : SUBSET {<<f, 1>> : f \in OverlayFeatures}]

DrawStartWith(a) ==
    /\ drawArgs = a
    /\ loaded = {}
    /\ requested = {}
    /\ canvas = Blank
    /\ drawn = {}
    /\ drew = FALSE

DrawStart == \E a \in DrawArgs : DrawStartWith(a)
DrawIdle ==
    DrawStartWith([modules |-> <<>>, selections |-> [f \in OverlayFeatures |-> 1],
                   scene |-> {}, maskOverrides |-> {}, ready |-> {}])

\* The effect runs (mount, a dependency changed) or the ResizeObserver /
\* window resize fires: draw().
Draw ==
    /\ LET st == draw(drawArgs, loaded, requested)
       IN  /\ canvas' = st.canvas
           /\ drawn' = st.drawn
           /\ requested' = st.requested
    /\ drew' = TRUE
    /\ UNCHANGED <<drawArgs, loaded>>
    /\ UNCHANGED notDraw

\* An image created by ensureImg finishes loading: its onload is draw
\* (lines 400-409).
ImageLoads(src) ==
    /\ src \in requested
    /\ loaded' = loaded \cup {src}
    /\ LET st == draw(drawArgs, loaded', requested \ {src})
       IN  /\ canvas' = st.canvas
           /\ drawn' = st.drawn
           /\ requested' = st.requested
    /\ drew' = TRUE
    /\ UNCHANGED drawArgs
    /\ UNCHANGED notDraw

\* The user picks an option (selections is a dependency of the effect): the
\* effect runs again and draws.
DrawSelect(featureId, opt) ==
    /\ drew
    /\ drawArgs.selections[featureId] # opt
    /\ drawArgs' = [drawArgs EXCEPT !.selections[featureId] = opt]
    /\ LET st == draw(drawArgs', loaded, requested)
       IN  /\ canvas' = st.canvas
           /\ drawn' = st.drawn
           /\ requested' = st.requested
    /\ UNCHANGED <<loaded, drew>>
    /\ UNCHANGED notDraw

DrawNext ==
    \/ Draw
    \/ \E src \in requested : ImageLoads(src)
    \/ \E featureId \in OverlayFeatures, opt \in 1..MaxOptions : DrawSelect(featureId, opt)

-----------------------------------------------------------------------------
(* Refinement cache keys: stableStringify and hashString, of which both   *)
(* src/web/app/build/page.tsx (lines 153-177) and                          *)
(* src/web/app/api/refine/route.ts (lines 14-41) hold a copy                 *)

\* A JavaScript string is the sequence of its UTF-16 code units; these are
\* the strings the requests below are made of.
CharCodes ==
    "selections" :> <<115, 101, 108, 101, 99, 116, 105, 111, 110, 115>> @@
    "extras" :> <<101, 120, 116, 114, 97, 115>> @@
    "userPrompt" :> <<117, 115, 101, 114, 80, 114, 111, 109, 112, 116>> @@
    "variant" :> <<118, 97, 114, 105, 97, 110, 116>> @@
    "walls_paint" :> <<119, 97, 108, 108, 115, 95, 112, 97, 105, 110, 116>> @@
    "flooring" :> <<102, 108, 111, 111, 114, 105, 110, 103>> @@
    "hardware" :> <<104, 97, 114, 100, 119, 97, 114, 101>> @@
    "decor" :> <<100, 101, 99, 111, 114>> @@
    "dark" :> <<100, 97, 114, 107>> @@
    "light" :> <<108, 105, 103, 104, 116>> @@
    "true" :> <<116, 114, 117, 101>> @@
    "false" :> <<102, 97, 108, 115, 101>> @@
    "low" :> <<108, 111, 119>> @@
    "high" :> <<104, 105, 103, 104>> @@
    "" :> <<>> @@
    "modern" :> <<109, 111, 100, 101, 114, 110>>

\* An object is the sequence of its properties in insertion order, each
\* [k |-> name, v |-> value]; a value is [t |-> "str", s |-> word],
\* [t |-> "bool", b |-> BOOLEAN] or [t |-> "obj", o |-> object].
StrVal(word) == [t |-> "str", s |-> word]
BoolVal(b) == [t |-> "bool", b |-> b]
ObjVal(o) == [t |-> "obj", o |-> o]

\* a < b for strings, as Array.prototype.sort() without a comparator orders
\* them: by code units, a proper prefix first.
CodeUnitLess(a, b) ==
    \E i \in 1..(Len(a) + 1) :
        /\ i <= Len(b)
        /\ \A j \in 1..(i - 1) : a[j] = b[j]
        /\ (i = Len(a) + 1 \/ a[i] < b[i])

\* Object.keys(v): the names in insertion order.
ObjectKeys(o) == [i \in 1..Len(o) |-> o[i].k]

\* Object.keys(v).sort()
ObjectKeysUnsorted(o) == ObjectKeys(o)
ObjectKeysSorted(o) ==
    LET keys == ObjectKeys(o)
        rank(i) == 1 + Cardinality({j \in 1..Len(o) :
                                      CodeUnitLess(CharCodes[keys[j]], CharCodes[keys[i]])})
    IN  [r \in 1..Len(o) |-> keys[CHOOSE i \in 1..Len(o) : rank(i) = r]]

\* v[k]
Prop(o, k) == (CHOOSE i \in 1..Len(o) : o[i].k = k)
PropValue(o, k) == o[Prop(o, k)].v

\* `sorter` (lines 155-166): an object is replaced by a copy whose
\* properties are inserted in the order of the sorted names.
sorter(o) == LET keys == ObjectKeysSorted(o)
             IN  [i \in 1..Len(o) |-> [k |-> keys[i], v |-> PropValue(o, keys[i])]]

Quote(codes) == <<34>> \o codes \o <<34>>

\* JSON.stringify(obj, sorter): the replacer is applied to every value
\* before it is serialised; an object is written as {"k":v,...} in the
\* insertion order of what the replacer returned.
RECURSIVE stringifyValue(_)
RECURSIVE stringifyProps(_, _)
stringifyProps(o, i) ==
    IF i > Len(o) THEN <<>>
    ELSE (IF i > 1 THEN <<44>> ELSE <<>>) \o Quote(CharCodes[o[i].k]) \o <<58>>
         \o stringifyValue(o[i].v) \o stringifyProps(o, i + 1)
stringifyValue(v) ==
    IF v.t = "str" THEN Quote(CharCodes[v.s])
    ELSE IF v.t = "bool" THEN CharCodes[IF v.b THEN "true" ELSE "false"]
    ELSE <<123>> \o stringifyProps(sorter(v.o), 1) \o <<125>>

stableStringify(o) == stringifyValue(ObjVal(o))

\* Bitwise exclusive or of two naturals.
RECURSIVE Xor(_, _)
Xor(a, b) ==
    IF a = 0 THEN b
    ELSE IF b = 0 THEN a
    ELSE (((a % 2) + (b % 2)) % 2) + 2 * Xor(a \div 2, b \div 2)

\* A 32-bit word as two 16-bit halves.
Half == 65536
Word(hi, lo) == [hi |-> hi, lo |-> lo]

\* h ^= input.charCodeAt(i): a code unit has 16 bits.
XorCode(h, c) == Word(h.hi, Xor(h.lo, c))

\* Math.imul(h, 16777619): the low 32 bits of h * (2^24 + 403).
Imul16777619(h) ==
    LET low == h.lo * 403
    IN  Word(((h.hi * 403) + (low \div Half) + ((h.lo % 256) * 256)) % Half, low % Half)

\* hashString (lines 169-177): FNV-1a from 2166136261 = 0x811C9DC5; the
\* result stands for its hexadecimal digits, (h >>> 0).toString(16).
FnvOffset == Word(33052, 40389)
\* The loop of lines 171-174 over the code units i..j of the string.  The
\* span is split in halves, and the first half is evaluated before the
\* second starts (the test on first.lo), so that the evaluation stays shallow.
RECURSIVE hashFrom(_, _, _, _)
hashFrom(h, str, i, j) ==
    IF i > j THEN h
    ELSE IF i = j THEN Imul16777619(XorCode(h, str[i]))
    ELSE LET mid == (i + j) \div 2
             first == hashFrom(h, str, i, mid)
         IN  IF first.lo >= 0 THEN hashFrom(first, str, mid + 1, j) ELSE first
hashString(str) == hashFrom(FnvOffset, str, 1, Len(str))

\* The request body of POST /api/refine as the page sends it (lines
\* 301-307) and the route reads it (route.ts lines 117-121).
Body(scanId, sel, extras, userPrompt, variant) ==
    [scanId |-> scanId, selections |-> sel, extras |-> extras,
     userPrompt |-> userPrompt, variant |-> variant]

\* currentRefineKey of the page (lines 266-270).
pageRefineKey(body) ==
    LET seed == stableStringify(<<[k |-> "selections", v |-> ObjVal(body.selections)],
                                  [k |-> "extras", v |-> ObjVal(body.extras)],
                                  [k |-> "userPrompt", v |-> StrVal(body.userPrompt)]>>)
    IN  [scan |-> body.scanId, hash |-> hashString(seed), variant |-> "low"]

\* cacheKey of the route (route.ts lines 127-128).
cacheKey(body) ==
    LET cacheSeed == stableStringify(<<[k |-> "selections", v |-> ObjVal(body.selections)],
                                       [k |-> "extras", v |-> ObjVal(body.extras)],
                                       [k |-> "userPrompt", v |-> StrVal(body.userPrompt)],
                                       [k |-> "variant", v |-> StrVal(body.variant)]>>)
    IN  [scan |-> body.scanId, hash |-> hashString(cacheSeed), variant |-> body.variant]

\* The objects over a set of names and a set of values, in every insertion
\* order: no name twice.
Objects(names, values) ==
    UNION {{o \in [1..n -> [k : names, v : values]] :
              \A i, j \in 1..n : i # j => o[i].k # o[j].k} : n \in 0..Cardinality(names)}

\* The key/value data of an object, whatever the insertion order.
Data(o) == {o[i] : i \in 1..Len(o)}

SelectionObjects == Objects({"walls_paint", "flooring"}, {StrVal("dark"), StrVal("light")})
ExtrasObjects == Objects({"hardware", "decor"}, {BoolVal(TRUE)})
Bodies ==
    {Body(ScanId, sel, ex, up, va) :
        sel \in SelectionObjects, ex \in ExtrasObjects,
        up \in {"", "modern"}, va \in {"low", "high"}}

SameData(a, b) ==
    /\ a.scanId = b.scanId
    /\ Data(a.selections) = Data(b.selections)
    /\ Data(a.extras) = Data(b.extras)
    /\ a.userPrompt = b.userPrompt
    /\ a.variant = b.variant

\* The bodies that carry the same data as `body`: its selections and its
\* extras inserted in any order.
Reorderings(body) == {b \in Bodies : SameData(body, b)}

NoKeys == [page |-> <<>>, route |-> <<>>]

\* A request body is taken; the page computes its key, and the route its
\* cache key, for the body in every insertion order of its objects.
KeyStart ==
    /\ input \in Bodies
    /\ output = NoKeys
    /\ world = <<>>

PageKeys ==
    /\ input \in Bodies
    /\ output.page = <<>>
    /\ output' = [output EXCEPT !.page = [b \in Reorderings(input) |-> pageRefineKey(b)]]
    /\ UNCHANGED <<input, world>>
    /\ UNCHANGED notCall

RouteKeys ==
    /\ input \in Bodies
    /\ output.route = <<>>
    /\ output' = [output EXCEPT !.route = [b \in Reorderings(input) |-> cacheKey(b)]]
    /\ UNCHANGED <<input, world>>
    /\ UNCHANGED notCall

KeyNext ==
    \/ PageKeys
    \/ RouteKeys

-----------------------------------------------------------------------------
(* Raster masks: src/web/web/lib/masking.ts                                  *)

SurfaceTypes == {"walls", "floor"}

\* groupPolygonsByType (lines 29-39), as the types that have a polygon of
\* three points or more; `polygons` are those types of the scene graph.
groupPolygonsByType(polygons) == polygons

\* rasterizePolygonMasks (lines 81-102): one mask per type that has polygons.
rasterizePolygonMasks(polygons) ==
    [source |-> "polygon-raster", byType |-> groupPolygonsByType(polygons)]

\* What callMaskService returns (lines 115-123, 158-175).
ServiceMasks(byType) == [source |-> "mask-service", byType |-> byType]

\* The arguments and the environment of one call: the exported function, the
\* types of the scene graph that have polygons, the requested types
\* (refineMasksOnDemand), MASK_SERVICE_URL set, MASK_AUTO_ON_SCAN = "1".
MaskCalls ==
    [fn : {"generateAutoMasks", "refineMasksOnDemand"},
     polygons : SUBSET SurfaceTypes,
     types : SUBSET SurfaceTypes,
     url : BOOLEAN,
     autoOnScan : BOOLEAN]

\* The scene graph callMaskService is given: refineMasksOnDemand filters the
\* elements by the requested types (lines 204-207).
ServiceScene(c) ==
    IF c.fn = "refineMasksOnDemand" THEN c.polygons \cap c.types ELSE c.polygons

\* Where a call stands: phase, the time since the abort timer was set, the
\* response's res.ok, whether the service call failed or timed out, and the
\* value returned ("none" while running or when the call threw).
MaskPc(phase, elapsed, ok, failed, result) ==
    [phase |-> phase, elapsed |-> elapsed, ok |-> ok, failed |-> failed, result |-> result]

NoMasks == [source |-> "none", byType |-> {}]

MaskStart ==
    /\ input \in MaskCalls
    /\ output = MaskPc("start", 0, FALSE, FALSE, NoMasks)
    /\ world = <<>>

\* callMaskService throws (a rejected fetch, an abort, a status that is not
\* ok).  generateAutoMasks catches it and falls through to the polygon
\* masks (lines 236-245); refineMasksOnDemand has no handler (lines 209-213).
MaskThrows(c) ==
    IF c.fn = "generateAutoMasks"
    THEN MaskPc("returned", 0, FALSE, TRUE, rasterizePolygonMasks(c.polygons))
    ELSE MaskPc("thrown", 0, FALSE, TRUE, NoMasks)

\* The exported function up to the fetch of callMaskService (lines 188-213,
\* 221-246, 104-141).
MaskCall ==
    /\ input \in MaskCalls
    /\ output.phase = "start"
    /\ LET c == input
           useService == IF c.fn = "refineMasksOnDemand" THEN c.url
                         ELSE c.autoOnScan /\ c.url
       IN  output' =
             IF ~useService
             THEN MaskPc("returned", 0, FALSE, FALSE, rasterizePolygonMasks(c.polygons))
             ELSE IF groupPolygonsByType(ServiceScene(c)) = {}
             THEN MaskPc("returned", 0, FALSE, FALSE, ServiceMasks({}))
             ELSE MaskPc("fetch", 0, FALSE, FALSE, NoMasks)
    /\ UNCHANGED <<input, world>>
    /\ UNCHANGED notCall

\* Time passes while the request is out; the timer set at line 138 is due
\* after MaxMaskTicks.
MaskTick ==
    /\ input \in MaskCalls
    /\ output.phase \in {"fetch", "json"}
    /\ output.elapsed < MaxMaskTicks
    /\ output' = [output EXCEPT !.elapsed = @ + 1]
    /\ UNCHANGED <<input, world>>
    /\ UNCHANGED notCall

\* The timer fires: ac.abort() (line 138).  A pending fetch rejects with an
\* AbortError.  A body still being read rejects too, but
\* res.json().catch(() => ({})) turns that into {} (line 152): with res.ok
\* the function goes on and returns no masks at all (lines 157-175).
MaskTimeout ==
    /\ input \in MaskCalls
    /\ output.phase \in {"fetch", "json"}
    /\ output.elapsed = MaxMaskTicks
    /\ output' = IF output.phase = "fetch" \/ ~output.ok
                 THEN MaskThrows(input)
                 ELSE MaskPc("returned", 0, TRUE, TRUE, ServiceMasks({}))
    /\ UNCHANGED <<input, world>>
    /\ UNCHANGED notCall

\* fetch resolves with the response head (line 141).
MaskFetchResolves(ok) ==
    /\ input \in MaskCalls
    /\ output.phase = "fetch"
    /\ output' = [output EXCEPT !.phase = "json", !.ok = ok]
    /\ UNCHANGED <<input, world>>
    /\ UNCHANGED notCall

\* fetch rejects: the service cannot be reached.
MaskFetchRejects ==
    /\ input \in MaskCalls
    /\ output.phase = "fetch"
    /\ output' = MaskThrows(input)
    /\ UNCHANGED <<input, world>>
    /\ UNCHANGED notCall

\* The body arrives (lines 152-175): a status that is not ok throws, else
\* the masks of the answer are returned.
MaskBody(masks) ==
    /\ input \in MaskCalls
    /\ output.phase = "json"
    /\ masks \subseteq ServiceScene(input)
    /\ output' = IF ~output.ok THEN MaskThrows(input)
                 ELSE MaskPc("returned", 0, TRUE, FALSE, ServiceMasks(masks))
    /\ UNCHANGED <<input, world>>
    /\ UNCHANGED notCall

MaskNext ==
    \/ MaskCall
    \/ MaskTick
    \/ MaskTimeout
    \/ \E ok \in BOOLEAN : MaskFetchResolves(ok)
    \/ MaskFetchRejects
    \/ \E masks \in SUBSET SurfaceTypes : MaskBody(masks)

-----------------------------------------------------------------------------
(* Route handlers that take a scanId: POST /api/render (part_000), POST     *)
(* /api/refine (app/api/refine/route.ts), POST /api/options and POST        *)
(* /api/prompt-image (web/app/api), over lib/store.ts                        *)

HalfHour == 1800
\* setScan(record): ttlSeconds = 60 * 60 * 24 (store.ts line 111)
ScanTtlSeconds == 86400
\* setRefine(cacheKey, outBase64, 60 * 60) (refine/route.ts line 169)
RefineTtlSeconds == 3600

\* "" is a body without scanId, "s1" the scan POST /api/scan stored, "s2" an
\* id that was never stored.
RequestScanIds == {"", "s1", "s2"}
StoredScanIds == {"s1", "s2"}

\* An entry of the store is the time it expires at, 0 when there is none:
\* GET drops an entry whose expiresAt <= now (store.ts lines 28-36; a key
\* set with EX in Redis).
StoreGet(expiresAt, t) == expiresAt # 0 /\ expiresAt > t

\* What a handler answered and did: the request, whether it got past the
\* origin check and the server-configuration check, whether its scan was in
\* the store, the status, and the store reads, jobs created, refine-cache
\* writes and synthesis calls it made.
Answered(route, scanId, admitted, inStore, status, reads, jobs, writes, synth) ==
    [route |-> route, scanId |-> scanId, admitted |-> admitted, inStore |-> inStore,
     status |-> status, reads |-> reads, jobs |-> jobs, writes |-> writes, synth |-> synth]

NoAnswer == Answered("none", "", FALSE, FALSE, 0, 0, 0, 0, 0)

\* The scan was stored at time 0; the environment has OPENAI_API_KEY or not.
RouteStart ==
    /\ input = <<>>
    /\ output = NoAnswer
    /\ world \in [now : {0},
                  scans : {[id \in StoredScanIds |->
                              IF id = "s1" THEN ScanTtlSeconds ELSE 0]},
                  refines : {[id \in StoredScanIds |-> 0]},
                  jobs : {0},
                  apiKey : BOOLEAN]

\* enforceAllowedOrigin fails: 403 (first lines of every handler).
Forbidden(route, scanId) == Answered(route, scanId, FALSE, FALSE, 403, 0, 0, 0, 0)
\* OPENAI_API_KEY is missing: 500 (refine lines 113-115, prompt-image lines
\* 83-85).
Misconfigured(route, scanId) == Answered(route, scanId, FALSE, FALSE, 500, 0, 0, 0, 0)

ScanInStore(scanId) == scanId # "" /\ StoreGet(world.scans[scanId], world.now)

\* POST /api/render (part_000 lines 9-72).
PostRender(scanId, originOk) ==
    /\ world # <<>>
    /\ world.jobs < MaxRenders
    /\ input' = [route |-> "render", scanId |-> scanId]
    /\ IF ~originOk THEN output' = Forbidden("render", scanId) /\ UNCHANGED world
       ELSE IF scanId = ""
       THEN output' = Answered("render", scanId, TRUE, FALSE, 400, 0, 0, 0, 0) /\ UNCHANGED world
       ELSE IF ~ScanInStore(scanId)
       THEN output' = Answered("render", scanId, TRUE, FALSE, 404, 1, 0, 0, 0) /\ UNCHANGED world
       ELSE /\ output' = Answered("render", scanId, TRUE, TRUE, 200, 1, 1, 0, 0)
            /\ world' = [world EXCEPT !.jobs = @ + 1]
    /\ UNCHANGED notCall

\* POST /api/options (options/route.ts lines 9-49).
PostOptions(scanId, originOk) ==
    /\ world # <<>>
    /\ input' = [route |-> "options", scanId |-> scanId]
    /\ output' = IF ~originOk THEN Forbidden("options", scanId)
                 ELSE IF scanId = ""
                 THEN Answered("options", scanId, TRUE, FALSE, 400, 0, 0, 0, 0)
                 ELSE IF ~ScanInStore(scanId)
                 THEN Answered("options", scanId, TRUE, FALSE, 404, 1, 0, 0, 0)
                 ELSE Answered("options", scanId, TRUE, TRUE, 200, 1, 0, 0, 0)
    /\ UNCHANGED world
    /\ UNCHANGED notCall

\* POST /api/prompt-image (prompt-image/route.ts lines 77-143); synthOk: the
\* synthesis call returns an image, else it throws (500).
PostPromptImage(scanId, originOk, synthOk) ==
    /\ world # <<>>
    /\ input' = [route |-> "prompt-image", scanId |-> scanId]
    /\ output' = IF ~originOk THEN Forbidden("prompt-image", scanId)
                 ELSE IF ~world.apiKey THEN Misconfigured("prompt-image", scanId)
                 ELSE IF scanId = ""
                 THEN Answered("prompt-image", scanId, TRUE, FALSE, 400, 0, 0, 0, 0)
                 ELSE IF ~ScanInStore(scanId)
                 THEN Answered("prompt-image", scanId, TRUE, FALSE, 404, 1, 0, 0, 0)
                 ELSE Answered("prompt-image", scanId, TRUE, TRUE,
                               IF synthOk THEN 200 ELSE 500, 1, 0, 0, 1)
    /\ UNCHANGED world
    /\ UNCHANGED notCall

\* POST /api/refine (refine/route.ts lines 107-178): the refine cache is
\* read before the scan (lines 131-135); a synthesised image is cached for
\* an hour (line 169).  One cache key per scan: the selections are fixed.
PostRefine(scanId, originOk, synthOk) ==
    /\ world # <<>>
    /\ input' = [route |-> "refine", scanId |-> scanId]
    /\ IF ~originOk THEN output' = Forbidden("refine", scanId) /\ UNCHANGED world
       ELSE IF ~world.apiKey
       THEN output' = Misconfigured("refine", scanId) /\ UNCHANGED world
       ELSE IF scanId = ""
       THEN output' = Answered("refine", scanId, TRUE, FALSE, 400, 0, 0, 0, 0) /\ UNCHANGED world
       ELSE IF StoreGet(world.refines[scanId], world.now)
       THEN /\ output' = Answered("refine", scanId, TRUE, ScanInStore(scanId), 200, 1, 0, 0, 0)
            /\ UNCHANGED world
       ELSE IF ~ScanInStore(scanId)
       THEN output' = Answered("refine", scanId, TRUE, FALSE, 404, 2, 0, 0, 0) /\ UNCHANGED world
       ELSE IF ~synthOk
       THEN output' = Answered("refine", scanId, TRUE, TRUE, 500, 2, 0, 0, 1) /\ UNCHANGED world
       ELSE /\ output' = Answered("refine", scanId, TRUE, TRUE, 200, 2, 0, 1, 1)
            /\ world' = [world EXCEPT !.refines[scanId] = world.now + RefineTtlSeconds]
    /\ UNCHANGED notCall

\* Half an hour passes.
ClockTick ==
    /\ world # <<>>
    /\ world.now < MaxClock * HalfHour
    /\ world' = [world EXCEPT !.now = @ + HalfHour]
    /\ UNCHANGED <<input, output>>
    /\ UNCHANGED notCall

RouteNext ==
    \/ \E scanId \in RequestScanIds, originOk \in BOOLEAN : PostRender(scanId, originOk)
    \/ \E scanId \in RequestScanIds, originOk \in BOOLEAN : PostOptions(scanId, originOk)
    \/ \E scanId \in RequestScanIds, originOk, synthOk \in BOOLEAN :
          PostPromptImage(scanId, originOk, synthOk)
    \/ \E scanId \in RequestScanIds, originOk, synthOk \in BOOLEAN :
          PostRefine(scanId, originOk, synthOk)
    \/ ClockTick

-----------------------------------------------------------------------------
(* Image preparation: src/remodel-builder-app/lib/imagePrep.ts               *)
(* The divisions are exact here (a quotient is a pair num / den); the code   *)
(* computes them in double precision.                                        *)

SIZE_MAP ==
    "1024x1024" :> [w |-> 1024, h |-> 1024] @@
    "1536x1024" :> [w |-> 1536, h |-> 1024] @@
    "1024x1536" :> [w |-> 1024, h |-> 1536]

candidates == <<"1024x1024", "1536x1024", "1024x1536">>

RECURSIVE Gcd(_, _)
Gcd(a, b) == IF b = 0 THEN a ELSE Gcd(b, a % b)

Quotient(num, den) == [num |-> num \div Gcd(num, den), den |-> den \div Gcd(num, den)]
Infinity == [num |-> 1, den |-> 0]
Abs(x) == IF x < 0 THEN 0 - x ELSE x

\* Math.abs(r - cr) for r = w / h and cr = SIZE_MAP[c].w / SIZE_MAP[c].h
AspectDiff(w, h, c) ==
    LET cr == Quotient(SIZE_MAP[c].w, SIZE_MAP[c].h)
    IN  [num |-> Abs(w * cr.den - cr.num * h), den |-> h * cr.den]

\* diff < bestDiff (line 20)
DiffLessOrEqual(diff, bestDiff) == diff.num * bestDiff.den <= bestDiff.num * diff.den
DiffLess(diff, bestDiff) == diff.num * bestDiff.den < bestDiff.num * diff.den

\* The loop of pickClosestSize (lines 18-25) from candidate i on.
RECURSIVE pickFrom(_, _, _, _, _)
pickFrom(w, h, i, best, bestDiff) ==
    IF i > Len(candidates) THEN best
    ELSE LET diff == AspectDiff(w, h, candidates[i])
         IN  IF DiffLess(diff, bestDiff)
             THEN pickFrom(w, h, i + 1, candidates[i], diff)
             ELSE pickFrom(w, h, i + 1, best, bestDiff)

pickClosestSize(w, h) == pickFrom(w, h, 1, candidates[1], Infinity)

\* Math.round(num / den) and Math.floor(num / den), num / den >= 0 for round
Round(num, den) == (2 * num + den) \div (2 * den)
Floor(num, den) == num \div den

\* prepareImageForEdit (lines 33-79): the PreparedImageInfo it records.
prepareImageForEdit(originalW, originalH) ==
    LET size == pickClosestSize(originalW, originalH)
        targetW == SIZE_MAP[size].w
        targetH == SIZE_MAP[size].h
        \* scale = Math.min(targetW / originalW, targetH / originalH)
        scale == IF targetW * originalH < targetH * originalW
                 THEN [num |-> targetW, den |-> originalW]
                 ELSE [num |-> targetH, den |-> originalH]
        resizedW == Round(originalW * scale.num, scale.den)
        resizedH == Round(originalH * scale.num, scale.den)
        left == Floor(targetW - resizedW, 2)
        top == Floor(targetH - resizedH, 2)
    IN  [size |-> size, width |-> targetW, height |-> targetH,
         crop |-> [left |-> left, top |-> top, width |-> resizedW, height |-> resizedH],
         original |-> [width |-> originalW, height |-> originalH]]

\* sharp's extract() takes a region with non-negative offsets and a positive
\* width and height that lies inside the image; anything else is an error.
ExtractOk(crop, imageW, imageH) ==
    /\ crop.left >= 0 /\ crop.top >= 0
    /\ crop.width >= 1 /\ crop.height >= 1
    /\ crop.left + crop.width <= imageW
    /\ crop.top + crop.height <= imageH

\* unpadGeneratedImage (lines 85-95) on an image of imageW x imageH: the
\* size of the image it returns, or that it throws.
unpadGeneratedImage(imageW, imageH, info) ==
    IF ExtractOk(info.crop, imageW, imageH)
    THEN [ok |-> TRUE, width |-> info.original.width, height |-> info.original.height]
    ELSE [ok |-> FALSE, width |-> 0, height |-> 0]

\* Sides of uploaded images: every small side, and those of some photographs
\* and panoramas.
PhotoSides == {1024, 1080, 1280, 1536, 1920, 3072, 3073, 4000}
Sides == (1..MaxSide) \cup PhotoSides

NoInfo == [size |-> "none"]
NoImage == [ok |-> FALSE, width |-> 0, height |-> 0]

PrepStart ==
    /\ input \in [w : Sides, h : Sides]
    /\ output = [phase |-> "uploaded", info |-> NoInfo, image |-> NoImage]
    /\ world = <<>>

\* POST /api/scan prepares the upload (scan/route.ts line 115).
PrepareImage ==
    /\ input \in [w : Sides, h : Sides]
    /\ output.phase = "uploaded"
    /\ output' = [output EXCEPT !.phase = "prepared",
                                !.info = prepareImageForEdit(input.w, input.h)]
    /\ UNCHANGED <<input, world>>
    /\ UNCHANGED notCall

\* A route unpads the image the synthesis returned, which has the prepared
\* size (refine/route.ts lines 152-166).
UnpadImage ==
    /\ input \in [w : Sides, h : Sides]
    /\ output.phase = "prepared"
    /\ output' = [output EXCEPT !.phase = "unpadded",
                                !.image = unpadGeneratedImage(output.info.width,
                                                              output.info.height, output.info)]
    /\ UNCHANGED <<input, world>>
    /\ UNCHANGED notCall

PrepNext ==
    \/ PrepareImage
    \/ UnpadImage

-----------------------------------------------------------------------------
(* What a module without a selection contributes: the preview's draw()     *)
(* (build/page.tsx), the refinement instruction (app/api/refine/route.ts)   *)
(* and the final-render instruction (part_002)                              *)

\* selections is a Record<string, string>: a feature the user never picked
\* for has no key.
PartialSelections ==
    UNION {[fs -> 1..MaxOptions] : fs \in SUBSET {c.featureId : c \in Catalog}}

\* resolveSelections of the refine route (refine/route.ts lines 57-70): a
\* module without a chosen id, or whose chosen id is none of its options, is
\* skipped. A line `- ${m.label}: ${chosen.renderHint}` is the pair of its
\* module and option.
refineResolveSelections(ms, sel) ==
    {[feature |-> ms[i].featureId, opt |-> sel[ms[i].featureId]] :
        i \in {j \in DOMAIN ms :
                  /\ ms[j].featureId \in DOMAIN sel
                  /\ sel[ms[j].featureId] \in 1..ms[j].options}}

\* resolveSelections of the worker (part_002 lines 30-40): the chosen id is
\* selections[featureId] ?? defaultOptionId ?? options[0].id, and the option
\* is the one found or else options[0]; no module built here has a
\* defaultOptionId.
workerChosen(m, sel) ==
    IF m.featureId \in DOMAIN sel /\ sel[m.featureId] \in 1..m.options
    THEN sel[m.featureId]
    ELSE IF m.options >= 1 THEN 1 ELSE 0
resolveSelections(ms, sel) ==
    {[feature |-> ms[i].featureId, opt |-> workerChosen(ms[i], sel)] :
        i \in {j \in DOMAIN ms : workerChosen(ms[j], sel) # 0}}

\* What draw() puts on the canvas once every texture has loaded: the
\* (feature, option) pairs of its fills.
AllTextures == {Texture(f, o) : f \in OverlayFeatures, o \in 1..MaxOptions}
previewOverlays(a) ==
    {[feature |-> d.feature, opt |-> d.opt] :
        d \in draw([modules |-> a.modules, selections |-> a.selections, scene |-> a.scene,
                    maskOverrides |-> {}, ready |-> {}], AllTextures, {}).drawn}

SelectInputs == [modules : DrawModuleLists, selections : PartialSelections, scene : SceneGraphs]

SelectStart ==
    /\ input \in SelectInputs
    /\ output = [op |-> "none", contributes |-> {}]
    /\ world = <<>>

\* The build page shows the preview canvas.
PreviewDraws ==
    /\ input \in SelectInputs
    /\ output.op = "none"
    /\ output' = [op |-> "preview", contributes |-> previewOverlays(input)]
    /\ UNCHANGED <<input, world>>
    /\ UNCHANGED notCall

\* POST /api/refine builds its prompt (refine/route.ts lines 143-144).
RefineInstruction ==
    /\ input \in SelectInputs
    /\ output.op = "none"
    /\ output' = [op |-> "refine",
                  contributes |-> refineResolveSelections(input.modules, input.selections)]
    /\ UNCHANGED <<input, world>>
    /\ UNCHANGED notCall

\* The worker builds its prompt (part_002 line 121).
RenderInstruction ==
    /\ input \in SelectInputs
    /\ output.op = "none"
    /\ output' = [op |-> "render",
                  contributes |-> resolveSelections(input.modules, input.selections)]
    /\ UNCHANGED <<input, world>>
    /\ UNCHANGED notCall

SelectNext ==
    \/ PreviewDraws
    \/ RefineInstruction
    \/ RenderInstruction

-----------------------------------------------------------------------------
(* The wizard session and its copy in localStorage: WizardProvider of      *)
(* src/web/app/providers.tsx (lines 231-400)                                *)

Undefined == "undefined"
Null == "null"

\* The values the handlers are called with; sessionId is one fixed id.
SessionIds == {"id1"}
SessionSelections == {sel \in PartialSelections : DOMAIN sel \subseteq {"walls_paint"}}
SessionExtras == UNION {[ks -> BOOLEAN] : ks \in SUBSET {"decor"}}
SessionOverrides == {{}, {"walls_0"}}
SessionModules == {<<>>, <<"walls_paint">>}

\* defaultSession (lines 35-50); scanError and overlayError are absent.
defaultSession(id) ==
    [sessionId |-> id, beforeSrc |-> Null, promptedSrc |-> Null, scanId |-> Null,
     sceneGraph |-> Null, modules |-> <<>>, selections |-> <<>>, maskOverrides |-> {},
     userPrompt |-> "", extras |-> <<>>, scanStatus |-> "idle", scanError |-> Undefined,
     overlayAssets |-> {}, overlayStatus |-> "idle", overlayProgress |-> 0,
     overlayError |-> Undefined]

\* toPersistedSession (lines 76-81): the session without its four blobs.
toPersistedSessionWithOverlays(ss) ==
    [k \in DOMAIN ss \ {"beforeSrc", "promptedSrc", "maskOverrides"} |-> ss[k]]
toPersistedSession(ss) ==
    [k \in DOMAIN ss \ {"beforeSrc", "promptedSrc", "overlayAssets", "maskOverrides"} |-> ss[k]]

\* The optional properties of WizardSession (lines 24 and 30), the only ones
\* that are ever undefined.
OptionalKeys == {"scanError", "overlayError"}

\* JSON.stringify of an object leaves out the properties whose value is
\* undefined; the text is written as the object JSON.parse makes of it.
JsonStringify(obj) ==
    [k \in {j \in DOMAIN obj : j \in OptionalKeys => obj[j] # Undefined} |-> obj[k]]

\* localStorage.getItem when nothing was stored under the key.
NoItem == [item |-> Null]

\* safeParse (lines 66-73) of what getItem returned: null when there is no
\* item, and the object that was written otherwise.
safeParse(raw) == IF raw = NoItem THEN [parsed |-> FALSE] ELSE [parsed |-> TRUE, value |-> raw]

\* The initializer of useState (lines 233-245):
\* { ...defaultSession(), ...(existing || {}) } and the six resets.
initialSession(raw, id) ==
    LET existing == safeParse(raw)
        merged == [k \in DOMAIN defaultSession(id) |->
                      IF existing.parsed /\ k \in DOMAIN existing.value
                      THEN existing.value[k] ELSE defaultSession(id)[k]]
    IN  [merged EXCEPT !.beforeSrc = Null, !.promptedSrc = Null, !.maskOverrides = {},
                       !.overlayAssets = {}, !.overlayStatus = "idle",
                       !.overlayProgress = 0, !.overlayError = Undefined]

NoSession == [sessionId |-> "none"]

\* The page has just been opened for the first time: nothing is stored, the
\* persist effect is about to run.
SessionStart ==
    /\ input = <<>>
    /\ output = <<>>
    /\ \E id \in SessionIds :
          world = [s |-> initialSession(NoItem, id), localStorage |-> NoItem,
                   inflightScan |-> FALSE, pending |-> TRUE, synced |-> FALSE,
                   edits |-> 0, last |-> "open", prev |-> NoSession,
                   prevSynced |-> FALSE]

\* setS: the state changes, so the persist effect will run.
SetS(next, counted) ==
    /\ output' = output
    /\ input' = input
    /\ world' = [world EXCEPT !.s = next, !.pending = TRUE, !.synced = FALSE,
                              !.edits = IF counted THEN @ + 1 ELSE @, !.last = "set"]
    /\ UNCHANGED notCall

InSession == "localStorage" \in DOMAIN world
MayEdit == InSession /\ world.edits < MaxEdits

\* The setters of lines 265-287.
SessionSetBeforeSrc(src) == MayEdit /\ SetS([world.s EXCEPT !.beforeSrc = src], TRUE)
SessionSetPromptedSrc(src) == MayEdit /\ SetS([world.s EXCEPT !.promptedSrc = src], TRUE)
SessionSetUserPrompt(v) == MayEdit /\ SetS([world.s EXCEPT !.userPrompt = v], TRUE)
SessionSetExtras(next) == MayEdit /\ SetS([world.s EXCEPT !.extras = next], TRUE)
SessionSetSelections(next) == MayEdit /\ SetS([world.s EXCEPT !.selections = next], TRUE)
SessionSetMaskOverrides(next) == MayEdit /\ SetS([world.s EXCEPT !.maskOverrides = next], TRUE)

\* startScan (lines 289-308): not while a scan is in flight.
SessionStartScan ==
    /\ MayEdit
    /\ ~world.inflightScan
    /\ output' = output
    /\ input' = input
    /\ world' = [world EXCEPT !.s = [world.s EXCEPT !.scanStatus = "scanning",
                                                    !.scanError = Undefined,
                                                    !.scanId = Null, !.sceneGraph = Null,
                                                    !.modules = <<>>, !.selections = <<>>,
                                                    !.overlayAssets = {},
                                                    !.overlayStatus = "idle",
                                                    !.overlayProgress = 0,
                                                    !.overlayError = Undefined],
                              !.inflightScan = TRUE, !.pending = TRUE, !.synced = FALSE,
                              !.edits = @ + 1, !.last = "set"]
    /\ UNCHANGED notCall

\* Both requests of the scan succeeded (lines 313-339); defaultSelections is
\* {} (options/route.ts line 40).
SessionScanSucceeds(ms) ==
    /\ InSession
    /\ world.inflightScan
    /\ output' = output
    /\ input' = input
    /\ world' = [world EXCEPT !.s = [world.s EXCEPT !.scanId = "scan1",
                                                    !.sceneGraph = "scene",
                                                    !.modules = ms, !.selections = <<>>,
                                                    !.scanStatus = "ready",
                                                    !.scanError = Undefined,
                                                    !.overlayAssets = {},
                                                    !.overlayStatus = "idle",
                                                    !.overlayProgress = 0,
                                                    !.overlayError = Undefined],
                              !.inflightScan = FALSE, !.pending = TRUE, !.synced = FALSE,
                              !.last = "set"]
    /\ UNCHANGED notCall

\* One of the requests failed (lines 340-351).
SessionScanFails ==
    /\ InSession
    /\ world.inflightScan
    /\ output' = output
    /\ input' = input
    /\ world' = [world EXCEPT !.s = [world.s EXCEPT !.scanStatus = "error",
                                                    !.scanError = "Scan failed",
                                                    !.overlayAssets = {},
                                                    !.overlayStatus = "idle",
                                                    !.overlayProgress = 0,
                                                    !.overlayError = Undefined],
                              !.inflightScan = FALSE, !.pending = TRUE, !.synced = FALSE,
                              !.last = "set"]
    /\ UNCHANGED notCall

\* The overlay effect (lines 361-395) starts a build. Its setS changes
\* s.overlayStatus, a dependency of the effect, so the cleanup sets
\* cancelled before the build's first callback and the session stays at
\* "building".
SessionOverlayEffect ==
    /\ InSession
    /\ world.s.overlayStatus = "idle"
    /\ world.s.scanStatus = "ready"
    /\ world.s.beforeSrc # Null /\ world.s.sceneGraph # Null /\ world.s.modules # <<>>
    /\ SetS([world.s EXCEPT !.overlayStatus = "building", !.overlayProgress = 0,
                            !.overlayError = Undefined, !.overlayAssets = {}], FALSE)

\* The persist effect (lines 249-255); ok: setItem did not throw.
SessionPersist(ok) ==
    /\ InSession
    /\ world.pending
    /\ output' = output
    /\ input' = input
    /\ world' = [world EXCEPT !.localStorage =
                                  IF ok THEN JsonStringify(toPersistedSession(world.s)) ELSE @,
                              !.pending = FALSE, !.synced = ok, !.last = "persist"]
    /\ UNCHANGED notCall

\* resetAll (lines 257-263).
SessionResetAll(id, ok) ==
    /\ MayEdit
    /\ output' = output
    /\ input' = input
    /\ world' = [world EXCEPT !.s = defaultSession(id),
                              !.localStorage =
                                  IF ok THEN JsonStringify(toPersistedSession(defaultSession(id)))
                                  ELSE @,
                              !.pending = TRUE, !.synced = ok,
                              !.edits = @ + 1, !.last = "set"]
    /\ UNCHANGED notCall

\* The user reloads the page: the provider mounts anew and its state is
\* initialized from localStorage (lines 232-245); a scan in flight is gone
\* with the old page.
SessionReload(id) ==
    /\ InSession
    /\ world.last # "reload"
    /\ output' = output
    /\ input' = input
    /\ world' = [world EXCEPT !.s = initialSession(world.localStorage, id),
                              !.inflightScan = FALSE, !.pending = TRUE, !.synced = FALSE,
                              !.last = "reload", !.prev = world.s,
                              !.prevSynced = world.synced]
    /\ UNCHANGED notCall

SessionStoreNext ==
    \/ \E src \in {Null, "photo"} : SessionSetBeforeSrc(src)
    \/ \E src \in {Null, "prompted"} : SessionSetPromptedSrc(src)
    \/ \E v \in {"", "modern"} : SessionSetUserPrompt(v)
    \/ \E next \in SessionExtras : SessionSetExtras(next)
    \/ \E next \in SessionSelections : SessionSetSelections(next)
    \/ \E next \in SessionOverrides : SessionSetMaskOverrides(next)
    \/ SessionStartScan
    \/ \E ms \in SessionModules : SessionScanSucceeds(ms)
    \/ SessionScanFails
    \/ SessionOverlayEffect
    \/ \E ok \in BOOLEAN : SessionPersist(ok)
    \/ \E id \in SessionIds, ok \in BOOLEAN : SessionResetAll(id, ok)
    \/ \E id \in SessionIds : SessionReload(id)

-----------------------------------------------------------------------------
(* The inputs of a job: POST /api/render (part_000 lines 15-47) copies them *)
(* from the request and the scan, POST /api/worker (part_002 lines 92-183)  *)
(* rewrites the record                                                      *)

\* The record of the scan in the store; the scan route stores it once under
\* a fresh id (scan/route.ts lines 158-170).
ScanRecord ==
    [id |-> "scan1", sceneGraphJSON |-> "scene1", preparedImageBase64 |-> "image1",
     preparedImageMime |-> "image/jpeg", preparedImageInfo |-> "1024x1024"]
NoScanRecord == [id |-> "none"]

\* What the page sends with a render: selections and userPrompt as they are
\* at the click, extras of the session.
PageStates == {[selections |-> "light", userPrompt |-> ""],
               [selections |-> "dark", userPrompt |-> "modern"]}

\* The job the render route builds (part_000 lines 33-45); no result, no
\* error.
queuedJob(id, t, body, scan) ==
    [id |-> id, status |-> "queued", createdAt |-> t, scanId |-> body.scanId,
     sceneGraphJSON |-> scan.sceneGraphJSON, selections |-> body.selections,
     extras |-> body.extras, userPrompt |-> body.userPrompt,
     preparedImageBase64 |-> scan.preparedImageBase64,
     preparedImageMime |-> scan.preparedImageMime,
     preparedImageInfo |-> scan.preparedImageInfo,
     resultImageBase64 |-> 0, error |-> ""]

\* The worker's writes: { ...job, status, ... } (part_002 lines 112,
\* 163-168, 177-181).
processingJob(job) == [job EXCEPT !.status = "processing", !.error = ""]
completedJobAnew(job, image) ==
    [queuedJob(job.id, 0, [scanId |-> job.scanId, selections |-> "light", extras |-> "none",
                           userPrompt |-> ""], ScanRecord)
        EXCEPT !.status = "completed", !.resultImageBase64 = image]
completedJob(job, image) ==
    [job EXCEPT !.status = "completed", !.resultImageBase64 = image, !.error = ""]
failedJob(job, message) == [job EXCEPT !.status = "failed", !.error = message]

NoStoredJob == [id |-> 0]

InSnapshot == "enqueued" \in DOMAIN world

SnapshotStart ==
    /\ input = <<>>
    /\ output = <<>>
    /\ world = [scan |-> ScanRecord, now |-> 1,
                page |-> [selections |-> "light", userPrompt |-> ""],
                jobs |-> [j \in 1..MaxEnqueued |-> NoStoredJob],
                enqueued |-> [j \in 1..MaxEnqueued |-> NoStoredJob],
                nextJob |-> 0, msgs |-> {}, posts |-> 0, workers |-> {}]

SnapshotStep(next) ==
    /\ InSnapshot
    /\ world' = next
    /\ UNCHANGED <<input, output>>
    /\ UNCHANGED notCall

\* The user picks another option and edits the prompt.
SnapshotEdit(next) ==
    /\ InSnapshot
    /\ next # world.page
    /\ SnapshotStep([world EXCEPT !.page = next])

\* The scan's TTL elapses (store.ts: EX ttl).
SnapshotScanExpires ==
    /\ InSnapshot
    /\ world.scan # NoScanRecord
    /\ SnapshotStep([world EXCEPT !.scan = NoScanRecord])

\* POST /api/render with the page's state (page.tsx lines 338-342, part_000
\* lines 15-66), the scan being in the store.
SnapshotRender ==
    /\ InSnapshot
    /\ world.nextJob < MaxEnqueued
    /\ world.scan # NoScanRecord
    /\ LET id == world.nextJob + 1
           body == [scanId |-> world.scan.id, selections |-> world.page.selections,
                    extras |-> "none", userPrompt |-> world.page.userPrompt]
           job == queuedJob(id, world.now, body, world.scan)
       IN  SnapshotStep([world EXCEPT !.nextJob = id, !.now = @ + 1,
                                      !.jobs[id] = job, !.enqueued[id] = job,
                                      !.posts = @ + 1,
                                      !.msgs = @ \cup {[n |-> world.posts + 1, job |-> id]}])

\* Another POST /api/worker for a job that exists.
SnapshotWorkerPost(j) ==
    /\ InSnapshot
    /\ world.posts < MaxEnqueued + MaxExternalPosts
    /\ world.jobs[j] # NoStoredJob
    /\ SnapshotStep([world EXCEPT !.posts = @ + 1,
                                  !.msgs = @ \cup {[n |-> world.posts + 1, job |-> j]}])

\* The worker reads the job and marks it processing (part_002 lines 92-112).
SnapshotWorkerAdmit(m) ==
    /\ InSnapshot
    /\ m \in world.msgs
    /\ LET job == world.jobs[m.job]
       IN  SnapshotStep([world EXCEPT !.msgs = @ \ {m},
                                      !.jobs[m.job] = processingJob(job),
                                      !.workers = @ \cup {[n |-> m.n, job |-> job]}])

\* The synthesis returns an image or throws (part_002 lines 129-183).
SnapshotWorkerSynthesis(w, ok) ==
    /\ InSnapshot
    /\ w \in world.workers
    /\ SnapshotStep([world EXCEPT !.workers = @ \ {w},
                                  !.jobs[w.job.id] =
                                      IF ok THEN completedJob(w.job, w.n)
                                      ELSE failedJob(w.job, "Unknown error")])

SnapshotNext ==
    \/ \E next \in PageStates : SnapshotEdit(next)
    \/ SnapshotScanExpires
    \/ SnapshotRender
    \/ \E j \in 1..MaxEnqueued : SnapshotWorkerPost(j)
    \/ \E m \in world.msgs : SnapshotWorkerAdmit(m)
    \/ \E w \in world.workers, ok \in BOOLEAN : SnapshotWorkerSynthesis(w, ok)

-----------------------------------------------------------------------------
(* The memo of feathered polygon masks: polyMaskCanvasCache of            *)
(* src/web/app/build/page.tsx (line 217), filled by makeFeatheredPolyMask *)
(* (lines 411-451), under the wizard's pages and its scans                 *)

\* The polygons a scan can report for an element (mask.points_norm, three
\* points or more), and the sizes the preview image can have on screen.
Polygons == {"P1", "P2"}
CanvasSizes == {300, 400}

\* const feather = 6 (line 468).
FeatherPx == 6

\* Lines 416-447: the polygon scaled to w x h, filled, and blurred by
\* featherPx. The raster is determined by these four values.
Rasterize(pts, w, h, featherPx) == [pts |-> pts, w |-> w, h |-> h, blur |-> featherPx]

\* Lines 411-451: the memo is looked up under `${elId}:${w}x${h}:f${featherPx}`
\* (line 412); a hit is returned (line 414), a miss is rasterized and stored
\* (lines 445, 449).
makeFeatheredPolyMask(cache, elId, pts, w, h, featherPx) ==
    LET key == <<elId, w, h, featherPx>>
        hits == {c \in cache : c.key = key}
        fresh == Rasterize(pts, w, h, featherPx)
    IN  IF hits # {}
        THEN [mask |-> (CHOOSE c \in hits : TRUE).mask, cache |-> cache]
        ELSE [mask |-> fresh, cache |-> cache \cup {[key |-> key, mask |-> fresh]}]

NoMaskUse == [used |-> FALSE, elId |-> "", pts |-> "", w |-> 0, mask |-> Rasterize("", 0, 0, 0)]

InCompositor == "polyMaskCanvasCache" \in DOMAIN world

\* The upload page is mounted on an empty session, nothing picked.
CompositorStart ==
    /\ input = <<>>
    /\ output = NoMaskUse
    /\ world = [route |-> "upload", reading |-> 0, beforeSrc |-> 0, scanId |-> 0,
                sceneGraph |-> "null", inflightScan |-> 0, picked |-> 0,
                size |-> 300, polyMaskCanvasCache |-> {}]

\* The draw effect of the build page (lines 392-562) for the element
\* walls_0 of the selected walls module: nothing without a scene graph
\* (line 393), else the polygon mask is taken from makeFeatheredPolyMask
\* at the rounded size of the image (line 523) and composited (line 524).
CompositorDraw(w) ==
    IF w.route # "build" \/ w.sceneGraph = "null"
    THEN /\ world' = w
         /\ UNCHANGED output
    ELSE LET r == makeFeatheredPolyMask(w.polyMaskCanvasCache, "walls_0", w.sceneGraph,
                                        w.size, w.size, FeatherPx)
         IN  /\ world' = [w EXCEPT !.polyMaskCanvasCache = r.cache]
             /\ output' = [used |-> TRUE, elId |-> "walls_0", pts |-> w.sceneGraph,
                           w |-> w.size, mask |-> r.mask]

\* onPick up to its await (upload/page.tsx lines 26-30): the FileReader
\* starts on the picked file.
CompositorPick ==
    /\ InCompositor
    /\ world.route = "upload"
    /\ world.reading = 0
    /\ world.picked < MaxPicks
    /\ world' = [world EXCEPT !.picked = @ + 1, !.reading = world.picked + 1]
    /\ UNCHANGED <<input, output>>
    /\ UNCHANGED notCall

\* The FileReader is done and onPick goes on (lines 31-34), whatever page is
\* mounted by now: setBeforeSrc, then startScan, which returns at once when
\* a scan is in flight (providers.tsx line 290) and else clears the scene
\* graph and the scan id (lines 293-305) and posts the photo.
CompositorFileRead ==
    /\ InCompositor
    /\ world.reading # 0
    /\ IF world.inflightScan # 0
       THEN CompositorDraw([world EXCEPT !.reading = 0, !.beforeSrc = world.reading])
       ELSE CompositorDraw([world EXCEPT !.reading = 0, !.beforeSrc = world.reading,
                                         !.scanId = 0, !.sceneGraph = "null",
                                         !.inflightScan = world.reading])
    /\ UNCHANGED input
    /\ UNCHANGED notCall

\* /api/scan and /api/options answer (providers.tsx lines 306-345): the
\* scene graph names its element walls_0 whatever the photo (scan/route.ts
\* line 74) and carries the polygon found in this photo; a failure leaves
\* the scene graph null. The build page, if mounted, takes the scene graph
\* over (build/page.tsx line 237) and its draw effect runs.
CompositorScanAnswers(pts, ok) ==
    /\ InCompositor
    /\ world.inflightScan # 0
    /\ IF ok
       THEN CompositorDraw([world EXCEPT !.inflightScan = 0, !.scanId = world.inflightScan,
                                         !.sceneGraph = pts])
       ELSE CompositorDraw([world EXCEPT !.inflightScan = 0])
    /\ UNCHANGED input
    /\ UNCHANGED notCall

\* Next on the upload page (upload/page.tsx lines 37, 78): enabled once a
\* photo is in the session.
CompositorLeaveUpload ==
    /\ InCompositor
    /\ world.route = "upload"
    /\ world.beforeSrc # 0
    /\ world' = [world EXCEPT !.route = "prompt"]
    /\ UNCHANGED <<input, output>>
    /\ UNCHANGED notCall

\* The prompt page goes on to /build (upload/page.tsx lines 442, 478) once
\* the session has a scan id: the build page mounts with new, empty refs
\* (build/page.tsx line 217) and its draw effect runs.
CompositorEnterBuild ==
    /\ InCompositor
    /\ world.route = "prompt"
    /\ world.beforeSrc # 0
    /\ world.scanId # 0
    /\ CompositorDraw([world EXCEPT !.route = "build", !.polyMaskCanvasCache = {}])
    /\ UNCHANGED input
    /\ UNCHANGED notCall

\* Back (build/page.tsx line 658; the browser's back button on the prompt
\* page): the page unmounts, and with it its refs.
CompositorBack ==
    /\ InCompositor
    /\ world.route # "upload"
    /\ world' = [world EXCEPT !.route = IF world.route = "build" THEN "prompt" ELSE "upload",
                              !.polyMaskCanvasCache = {}]
    /\ UNCHANGED <<input, output>>
    /\ UNCHANGED notCall

\* The ResizeObserver or the window's resize listener fires (lines 552-556):
\* draw() at the new size.
CompositorResize(sz) ==
    /\ InCompositor
    /\ world.route = "build"
    /\ sz # world.size
    /\ CompositorDraw([world EXCEPT !.size = sz])
    /\ UNCHANGED input
    /\ UNCHANGED notCall

CompositorNext ==
    \/ CompositorPick
    \/ CompositorFileRead
    \/ \E pts \in Polygons, ok \in BOOLEAN : CompositorScanAnswers(pts, ok)
    \/ CompositorLeaveUpload
    \/ CompositorEnterBuild
    \/ CompositorBack
    \/ \E sz \in CanvasSizes : CompositorResize(sz)

-----------------------------------------------------------------------------
(* Specifications *)

\* No library call under examination.
CallIdle == input = <<>> /\ output = <<>> /\ world = <<>>
\* Everything but the call under examination at rest.
RestIdle == RefineStart /\ JobsIdle /\ OverlayStart /\ BakeIdle /\ DrawIdle

RefineInit == RefineStart /\ JobsIdle /\ OverlayStart /\ BakeIdle /\ DrawIdle /\ CallIdle
RefineSpec == RefineInit /\ [][RefineNext]_vars
VisitSpec == RefineInit /\ [][VisitNext]_vars

JobsInit == JobsStart /\ RefineStart /\ OverlayStart /\ BakeIdle /\ DrawIdle /\ CallIdle
JobsSpec == JobsInit /\ [][JobsNext]_vars
WorkerSpec == JobsInit /\ [][WorkerNext]_vars

\* Requests that were sent are delivered and answered, a worker invocation
\* past admission runs on, the synthesis call returns or throws, and the
\* page's interval keeps firing.
JobsFairness ==
    /\ WF_vars(\E found \in BOOLEAN : RenderPost(found))
    /\ WF_vars(RenderResponse)
    /\ WF_vars(PollTick)
    /\ WF_vars(\E p \in polls : JobGet(p))
    /\ WF_vars(\E p \in polls : PollReceive(p))
    /\ WF_vars(\E m \in msgs : WorkerAdmit(m))
    /\ WF_vars(\E w \in workers : WorkerMarkProcessing(w))
    /\ WF_vars(\E w \in workers, ok \in BOOLEAN : WorkerSynthesis(w, ok))
JobsFairSpec == JobsSpec /\ JobsFairness

OverlayInit == OverlayStart /\ RefineStart /\ JobsIdle /\ BakeIdle /\ DrawIdle /\ CallIdle
OverlaySpec == OverlayInit /\ [][OverlayNext]_vars

\* React runs an effect whose dependencies changed, and a build that was
\* started keeps baking and returns; that an image fails to load is not
\* assumed.
OverlayFairness ==
    /\ WF_vars(OverlayEffect)
    /\ WF_vars(\E b \in builds : BuildProgress(b))
    /\ WF_vars(\E b \in builds : BuildDone(b))
OverlayFairSpec == OverlaySpec /\ OverlayFairness

\* The session's handlers and rebuildOverlays alone: the provider without
\* its overlay effect.
SessionNext ==
    \/ OnPick
    \/ \E withModules \in BOOLEAN : ScanSucceeds(withModules)
    \/ ScanFails
    \/ ResetAll
    \/ \E key \in OverrideKeys : SetMaskOverrides(key)
    \/ \E featureId \in {"undefined"} \cup OverlayFeatures : RebuildOverlays(featureId)
    \/ \E b \in builds : BuildProgress(b)
    \/ \E b \in builds : BuildDone(b)
    \/ \E b \in builds : BuildFails(b)
SessionSpec == OverlayInit /\ [][SessionNext]_vars

\* The session's handlers and builds together with leaving the build page
\* and coming back.
MountNext ==
    \/ OnPick
    \/ \E withModules \in BOOLEAN : ScanSucceeds(withModules)
    \/ ScanFails
    \/ ResetAll
    \/ \E key \in OverrideKeys : SetMaskOverrides(key)
    \/ \E featureId \in {"undefined"} \cup OverlayFeatures : RebuildOverlays(featureId)
    \/ \E b \in builds : BuildProgress(b)
    \/ \E b \in builds : BuildDone(b)
    \/ \E b \in builds : BuildFails(b)
    \/ BackToPrompt
    \/ MountBuildPage
MountSpec == OverlayInit /\ [][MountNext]_vars

BakeInit == BakeStart /\ RefineStart /\ JobsIdle /\ OverlayStart /\ DrawIdle /\ CallIdle
BakeSpec == BakeInit /\ [][BakeNext]_vars

DrawInit == DrawStart /\ RefineStart /\ JobsIdle /\ OverlayStart /\ BakeIdle /\ CallIdle
DrawSpec == DrawInit /\ [][DrawNext]_vars

KeyInit == KeyStart /\ RestIdle
KeySpec == KeyInit /\ [][KeyNext]_vars

MaskInit == MaskStart /\ RestIdle
MaskSpec == MaskInit /\ [][MaskNext]_vars

RouteInit == RouteStart /\ RestIdle
RouteSpec == RouteInit /\ [][RouteNext]_vars

PrepInit == PrepStart /\ RestIdle
PrepSpec == PrepInit /\ [][PrepNext]_vars

SelectInit == SelectStart /\ RestIdle
SelectSpec == SelectInit /\ [][SelectNext]_vars

PersistInit == SessionStart /\ RestIdle
PersistSpec == PersistInit /\ [][SessionStoreNext]_vars

SnapshotInit == SnapshotStart /\ RestIdle
SnapshotSpec == SnapshotInit /\ [][SnapshotNext]_vars

CompositorInit == CompositorStart /\ RestIdle
CompositorSpec == CompositorInit /\ [][CompositorNext]_vars

-----------------------------------------------------------------------------
(* Claims about the refinement scheduler, checked under RefineSpec         *)

\* C1: whenever the continuation of a /api/refine response mutates the page
\* (adopts the image into refineCache, refinedBaseSrc and lastRefinedKey, or
\* writes refining / refineError), the key of that response is the current
\* refine key at that moment; a response for a superseded key changes
\* nothing.
C1_OnlyCurrentKeyWrites ==
    lastWrite.kind \in {"adopt", "error"} => lastWrite.key = lastWrite.cur

\* C2: the selection changes of one debounce window cause at most one POST
\* /api/refine, and it carries the key of the last change of that window,
\* which is the current key when it is issued; no request is issued for an
\* earlier change of the window.
C2_OnePostForLastChange ==
    /\ windowPosts <= 1
    /\ lastPost # NoPost =>
          /\ lastPost.window # <<>>
          /\ lastPost.key = lastPost.window[Len(lastPost.window)]
          /\ lastPost.key = lastPost.cur

\* C2 witness: three changes A, B, C fell into one window and the one POST
\* issued carries C's key.
C2_Witness ==
    /\ lastPost.window = <<currentRefineKey(ScanId, "A"), currentRefineKey(ScanId, "B"),
                           currentRefineKey(ScanId, "C")>>
    /\ lastPost.key = currentRefineKey(ScanId, "C")
    /\ windowPosts = 1
    /\ \E r \in reqs : r.key = currentRefineKey(ScanId, "C")

\* C3: a request whose AbortController has been aborted never writes
\* refineCache, refinedBaseSrc, lastRefinedKey, refining or refineError.
C3_AbortedNeverWrites ==
    ~lastWrite.aborted

\* C18 (RefineSpec): after a selection change whose key was in refineCache,
\* and until the next selection change, refinedBaseSrc is the cached image of
\* that key, lastRefinedKey is that key, which is the current key, refining
\* is false, no debounce timer is pending and no request is issued.
C18_CacheHitAdopted ==
    lastChange.hit =>
        /\ lastChange.key = currentRefineKey(ScanId, selections)
        /\ refinedBaseSrc = refineCache[lastChange.key]
        /\ refinedBaseSrc = RefineImage(lastChange.key)
        /\ lastRefinedKey = lastChange.key
        /\ ~refining
        /\ timers = {}
        /\ refineEv.kind # "post"

\* C18, the case: the last selection change adopted the cached image of its
\* key, and the response of a request for another key has since replaced it.
C18_AdoptedImageReplaced ==
    /\ lastChange.hit
    /\ refineEv.kind = "adopt"
    /\ refineEv.key # lastChange.key
    /\ refinedBaseSrc = RefineImage(refineEv.key)
    /\ lastRefinedKey # currentRefineKey(ScanId, selections)

\* C19 (RefineSpec): a step in which a request fails with an error that is
\* not an AbortError sets refineError, sets refining to false and leaves
\* refinedBaseSrc, lastRefinedKey and refineCache as they were; a selection
\* change clears refineError.
C19_FailureKeepsPreview ==
    [][/\ refineEv'.kind = "fail" =>
             /\ refineError' # "null"
             /\ ~refining'
             /\ refinedBaseSrc' = refinedBaseSrc
             /\ lastRefinedKey' = lastRefinedKey
             /\ refineCache' = refineCache
       /\ refineEv'.kind = "change" => refineError' = "null"]_vars

\* C19 witness: the request for B has just failed while the image adopted
\* for A is still the preview.
C19_Witness ==
    /\ refineEv.kind = "fail"
    /\ refineEv.key = currentRefineKey(ScanId, "B")
    /\ refineError = "Refine failed"
    /\ ~refining
    /\ refinedBaseSrc = RefineImage(currentRefineKey(ScanId, "A"))
    /\ lastRefinedKey = currentRefineKey(ScanId, "A")
    /\ refineCache[currentRefineKey(ScanId, "B")] = NoImg

\* C20 (RefineSpec): no POST /api/refine is issued for a key for which a
\* request is in flight or whose image is in refineCache.
C20_NoDuplicateRequest ==
    refineEv.kind = "post" => (~refineEv.inFlight /\ ~refineEv.cached)

\* C20, the case: a POST was just issued for the key of A although A's image
\* is in refineCache and is the adopted preview.
C20_PostForCachedKey ==
    /\ refineEv.kind = "post"
    /\ refineEv.key = currentRefineKey(ScanId, "A")
    /\ refineEv.cached
    /\ refinedBaseSrc = RefineImage(currentRefineKey(ScanId, "A"))
    /\ \E r \in reqs : r.key = currentRefineKey(ScanId, "A")


\* C21: the refinement cache is append-only: once an image has been stored
\* under key K, a lookup of K returns an image for the rest of the session;
\* no step removes or invalidates an entry.
C21_CacheAppendOnly ==
    [][\A k \in Keys : refineCache[k] # NoImg => refineCache'[k] # NoImg]_vars

\* C21, the case: the last response that was adopted stored its image under
\* a key whose lookup now misses, for the same scan and the same selections
\* key, with the build page open again.
C21_StoredEntryGone ==
    /\ page = "build"
    /\ lastWrite.kind = "adopt"
    /\ lastWrite.key = currentRefineKey(ScanId, selections)
    /\ refineCache[lastWrite.key] = NoImg

-----------------------------------------------------------------------------
(* Claims about the refinement cache keys, checked under KeySpec           *)

\* C22: two requests whose scanId, selections, extras, userPrompt and
\* variant are equal as key/value data get the same refinement cache key,
\* whatever the insertion order of the object keys, both from the page's
\* currentRefineKey and from the route's cacheKey.
C22_KeyIgnoresInsertionOrder ==
    input \in Bodies =>
        /\ \A a, b \in DOMAIN output.page : output.page[a] = output.page[b]
        /\ \A a, b \in DOMAIN output.route : output.route[a] = output.route[b]

\* C22, the case: both keys were computed for a body with two selections and
\* two extras, in each of the four insertion orders.
C22_Witness ==
    /\ input \in Bodies
    /\ Len(input.selections) = 2
    /\ Len(input.extras) = 2
    /\ Cardinality(DOMAIN output.page) = 4
    /\ Cardinality(DOMAIN output.route) = 4
    /\ \E a, b \in DOMAIN output.page :
          a.selections # b.selections /\ a.extras # b.extras

-----------------------------------------------------------------------------
(* Claims about the raster masks, checked under MaskSpec                    *)

\* C23: whenever the call of the pixel-segmentation service fails or times
\* out, mask generation returns the polygon-rasterized masks instead of an
\* error, in generateAutoMasks and in refineMasksOnDemand alike.
C23_FallsBackToPolygons ==
    (input \in MaskCalls /\ output.failed) =>
        /\ output.phase = "returned"
        /\ output.result = rasterizePolygonMasks(input.polygons)

\* C23, the case: refineMasksOnDemand ended with an exception after the
\* service call failed or timed out.
C23_OnDemandThrows ==
    /\ input \in MaskCalls
    /\ input.fn = "refineMasksOnDemand"
    /\ output.failed
    /\ output.phase = "thrown"

-----------------------------------------------------------------------------
(* Claims about the routes that take a scanId, checked under RouteSpec      *)

\* C24: a request without a scanId to POST /api/render, /api/refine,
\* /api/options or /api/prompt-image (from an allowed origin, to a
\* configured server) is answered 400 before any store read, job creation,
\* cache write or synthesis call; a request with a scanId that is not in
\* the store is answered 404 with no job created and no synthesis call.
C24_MissingOrUnknownScanRejected ==
    world # <<>> =>
        /\ (output.admitted /\ output.scanId = "") =>
              /\ output.status = 400
              /\ output.reads = 0 /\ output.jobs = 0
              /\ output.writes = 0 /\ output.synth = 0
        /\ (output.admitted /\ output.scanId # "" /\ ~output.inStore) =>
              /\ output.status = 404
              /\ output.jobs = 0 /\ output.synth = 0

\* C24, the case: /api/refine answered 200 for a scanId that is not in the
\* store.
C24_RefineServedWithoutScan ==
    /\ world # <<>>
    /\ output.admitted
    /\ output.route = "refine"
    /\ output.scanId # ""
    /\ ~output.inStore
    /\ output.status = 200

-----------------------------------------------------------------------------
(* Claims about the image preparation, checked under PrepSpec               *)

Prepared == input \in [w : Sides, h : Sides] /\ output.phase # "uploaded"

\* C25: for every input width and height pickClosestSize returns the member
\* of {1024x1024, 1536x1024, 1024x1536} whose aspect ratio has the smallest
\* absolute difference from width / height, the earliest in that order on a
\* tie; 1920 by 1080 yields 1536x1024 and 1080 by 1920 yields 1024x1536.
Nearer(d, e) == d.num * e.den < e.num * d.den
AsNear(d, e) == d.num * e.den = e.num * d.den

C25_ClosestAspectEarliestOnTie ==
    Prepared =>
        LET diff(i) == AspectDiff(input.w, input.h, candidates[i])
            b == CHOOSE i \in 1..Len(candidates) : candidates[i] = output.info.size
        IN  /\ \A i \in 1..Len(candidates) : ~Nearer(diff(i), diff(b))
            /\ \A i \in 1..(b - 1) : Nearer(diff(b), diff(i))
            /\ (input.w = 1920 /\ input.h = 1080) => output.info.size = "1536x1024"
            /\ (input.w = 1080 /\ input.h = 1920) => output.info.size = "1024x1536"

\* C25, the case: a 1280 by 1024 image is as far from 1024x1024 as from
\* 1536x1024, and got the earlier of the two.
C25_Witness ==
    /\ Prepared
    /\ input.w = 1280 /\ input.h = 1024
    /\ AsNear(AspectDiff(1280, 1024, "1024x1024"), AspectDiff(1280, 1024, "1536x1024"))
    /\ output.info.size = "1024x1024"

\* C26: for every input with positive integer width and height the crop
\* rectangle recorded by prepareImageForEdit has width and height at least
\* 1, lies inside the target canvas, is centred to within one pixel on each
\* axis, and spans the full canvas on at least one axis.
C26_CropInsideCanvas ==
    Prepared =>
        LET crop == output.info.crop
            targetW == output.info.width
            targetH == output.info.height
        IN  /\ crop.width >= 1 /\ crop.height >= 1
            /\ crop.left >= 0 /\ crop.top >= 0
            /\ crop.left + crop.width <= targetW
            /\ crop.top + crop.height <= targetH
            /\ Abs((targetW - crop.left - crop.width) - crop.left) <= 1
            /\ Abs((targetH - crop.top - crop.height) - crop.top) <= 1
            /\ (crop.width = targetW \/ crop.height = targetH)

\* C26, the case: the recorded crop rectangle has no rows or no columns.
C26_EmptyCrop ==
    /\ Prepared
    /\ (output.info.crop.width = 0 \/ output.info.crop.height = 0)

\* C27: for every PreparedImageInfo produced by prepareImageForEdit,
\* unpadGeneratedImage applied to an image of the prepared size succeeds and
\* returns an image of the recorded original width and height.
C27_UnpadRestoresOriginalSize ==
    (input \in [w : Sides, h : Sides] /\ output.phase = "unpadded") =>
        /\ output.image.ok
        /\ output.image.width = input.w
        /\ output.image.height = input.h

\* C27, the case: unpadGeneratedImage threw on the info that
\* prepareImageForEdit recorded.
C27_UnpadThrows ==
    /\ input \in [w : Sides, h : Sides]
    /\ output.phase = "unpadded"
    /\ ~output.image.ok

-----------------------------------------------------------------------------
(* Claims about modules without a selection, checked under SelectSpec       *)

\* C28: there are no pre-selected defaults: a module for which the user has
\* made no selection contributes no change anywhere; the live preview draws
\* no overlay for it, and neither the refinement instruction nor the
\* final-render instruction contains a line for it.
C28_NoPreselectedDefaults ==
    (input \in SelectInputs /\ output.op # "none") =>
        \A i \in DOMAIN input.modules :
            input.modules[i].featureId \notin DOMAIN input.selections =>
                \A c \in output.contributes : c.feature # input.modules[i].featureId

\* C28, the case: with nothing selected at all, the final-render
\* instruction has a line for walls_paint, or the preview an overlay for it.
C28_UnselectedModuleContributes ==
    /\ input \in SelectInputs
    /\ DOMAIN input.selections = {}
    /\ output.op \in {"render", "preview"}
    /\ \E c \in output.contributes : c.feature = "walls_paint"

-----------------------------------------------------------------------------
(* Claims about the persisted session, checked under PersistSpec            *)

Restored == {"scanId", "sceneGraph", "modules", "selections", "userPrompt", "extras"}

\* C30: persisting the session and reloading it restores scanId, scene
\* graph, modules, selections, userPrompt and extras unchanged, while
\* beforeSrc, promptedSrc, maskOverrides and overlayAssets are never written
\* to storage and after reload are empty with overlayStatus idle and
\* overlayProgress 0.
C30_PersistReloadRoundTrip ==
    InSession =>
        /\ world.localStorage # NoItem =>
              DOMAIN world.localStorage \cap
                  {"beforeSrc", "promptedSrc", "maskOverrides", "overlayAssets"} = {}
        /\ world.last = "reload" =>
              /\ world.prevSynced => \A k \in Restored : world.s[k] = world.prev[k]
              /\ world.s.beforeSrc = Null
              /\ world.s.promptedSrc = Null
              /\ world.s.maskOverrides = {}
              /\ world.s.overlayAssets = {}
              /\ world.s.overlayStatus = "idle"
              /\ world.s.overlayProgress = 0

\* C30 witness: a session with a photo, a mask override, a finished scan, a
\* prompt and an overlay build under way was persisted and reloaded.
C30_Witness ==
    /\ InSession
    /\ world.last = "reload"
    /\ world.prevSynced
    /\ world.prev.beforeSrc = "photo"
    /\ world.prev.maskOverrides = {"walls_0"}
    /\ world.prev.overlayStatus = "building"
    /\ world.s.scanId = "scan1"
    /\ world.s.modules = <<"walls_paint">>
    /\ world.s.userPrompt = "modern"
    /\ world.s.overlayStatus = "idle"

-----------------------------------------------------------------------------
(* Claims about the inputs of a job, checked under SnapshotSpec             *)

JobInputs == {"id", "createdAt", "scanId", "sceneGraphJSON", "selections", "extras",
              "userPrompt", "preparedImageBase64", "preparedImageMime", "preparedImageInfo"}

\* C35: every write the worker makes to a job record preserves the job's
\* id, createdAt, scanId, scene graph, selections, extras, userPrompt and
\* prepared-image fields exactly as enqueued; only status, resultImageBase64
\* and error change, and later changes to the scan or to the client's
\* selections never alter an enqueued job's inputs.
C35_JobInputsFrozen ==
    InSnapshot =>
        \A j \in 1..MaxEnqueued :
            world.jobs[j] # NoStoredJob =>
                /\ DOMAIN world.jobs[j] = JobInputs \cup {"status", "resultImageBase64", "error"}
                /\ \A k \in JobInputs : world.jobs[j][k] = world.enqueued[j][k]

\* C35 witness: a job enqueued with dark selections and the prompt "modern"
\* was completed by a second worker run after the scan had expired and the
\* client had gone back to light and an empty prompt; it still has its
\* inputs.
C35_Witness ==
    /\ InSnapshot
    /\ world.scan = NoScanRecord
    /\ world.page = [selections |-> "light", userPrompt |-> ""]
    /\ world.jobs[1] # NoStoredJob
    /\ world.jobs[1].status = "completed"
    /\ world.jobs[1].resultImageBase64 = 2
    /\ world.jobs[1].selections = "dark"
    /\ world.jobs[1].userPrompt = "modern"
    /\ world.jobs[1].sceneGraphJSON = "scene1"

-----------------------------------------------------------------------------
(* Claims about the final-render jobs                                      *)

\* C4 (WorkerSpec): once a terminal record has been stored for a job id,
\* every read of that id, while the record lives, returns the status, result
\* and error of that first terminal record, whatever worker invocations run.
C4_TerminalIsStable ==
    \A j \in JobIds :
        LET job == getJob(mem, j, now)
        IN  (firstTerminal[j] # NoJob /\ job # NoJob) =>
                /\ job.status = firstTerminal[j].status
                /\ job.result = firstTerminal[j].result
                /\ job.error = firstTerminal[j].error

\* C5 (WorkerSpec): the first status stored for a job id is queued, and every
\* later change of the stored status is queued -> processing,
\* processing -> completed or processing -> failed.
C5_StatusOrder ==
    (ev.trans # NoTrans /\ ev.trans.from # ev.trans.to) =>
        <<ev.trans.from, ev.trans.to>> \in
            {<<"none", "queued">>, <<"queued", "processing">>,
             <<"processing", "completed">>, <<"processing", "failed">>}

\* C6 (JobsFairSpec): every job enqueued by POST /api/render eventually has
\* status completed or failed.
C6_EveryJobTerminates ==
    \A j \in JobIds : (created[j] > 0) ~> (written[j] \in Terminal)

\* C7 (JobsSpec): no GET /api/job/:id is issued by tick() after a poll has
\* observed completed or failed for the current job id, nor after the page
\* was torn down.
C7_PollingStops ==
    ~ev.tick.afterTerminal /\ ~ev.tick.afterTeardown

\* C8 (JobsSpec): a job id never stored and a job id whose TTL has elapsed
\* read alike: getJob gives null and the status route answers 404; such an
\* answer carries no job status, and tick() handling a 404 changes neither
\* afterSrc, error nor isRendering.
C8_MissingIsNotFound ==
    /\ \A j \in JobIds :
          (storedAt[j] < 0 \/ now >= storedAt[j] + JobTtlSeconds) =>
              /\ getJob(mem, j, now) = NoJob
              /\ JobStatusRoute(getJob(mem, j, now)) = [code |-> 404, job |-> NoJob]
    /\ (ev.get.never \/ ev.get.elapsed) =>
          (ev.get.code = 404 /\ ev.get.status = "none")
    /\ ev.poll.code = 404 => ~ev.poll.changed

\* C8 witness: the page, still rendering, has just handled the 404 answer to
\* a poll of its job id, whose record had expired; it shows no error.
C8_Witness ==
    /\ ev.poll.code = 404
    /\ jobId # 0
    /\ now >= storedAt[jobId] + JobTtlSeconds
    /\ isRendering
    /\ error = "null"

\* C9 (JobsSpec): the render route stores each job id once, first as queued,
\* and sends one worker request for it, then; no other worker request is
\* sent, so a failed job is not dispatched again; and the page posts to
\* /api/render at most once per runRender call.
C9_NoAutomaticRedispatch ==
    /\ \A j \in JobIds : created[j] <= 1 /\ dispatches[j] = created[j]
    /\ posts = nextJob
    /\ \A m \in msgs : dispatches[m.job] = 1
    /\ (ev.trans.job # 0 /\ ev.trans.from = "none") => ev.trans.to = "queued"
    /\ \A j \in JobIds : created[j] = 0 <=> written[j] = "none"
    /\ nextJob <= renderClicks

\* C9 witness: the first job failed and was dispatched once; the second job
\* exists only because runRender was called again, and has its own id.
C9_Witness ==
    /\ written[1] = "failed"
    /\ dispatches[1] = 1
    /\ renderClicks = 2
    /\ created[2] = 1
    /\ written[2] = "queued"

\* C33 (JobsSpec): a job-status response for a job id that is no longer the
\* page's current jobId (a new render was started, "Back to editing" was
\* pressed, or the page unmounted) never sets afterSrc, error or
\* isRendering.
C33_StaleStatusIgnored ==
    [][\A p \in polls \ polls' :
          (ev'.poll # NoPoll /\ (p.job # jobId \/ ~mounted)) =>
              (afterSrc' = afterSrc /\ error' = error /\ isRendering' = isRendering)]_vars

\* C33 witness: after "Back to editing" the page received the answer
\* "completed" to a poll of the job it had shown, and adopted nothing.
C33_Witness ==
    /\ ev.poll.code = 200
    /\ ev.poll.status = "completed"
    /\ ~ev.poll.changed
    /\ mounted
    /\ jobId = 0
    /\ afterSrc = 0
    /\ ~isRendering

\* C34 (WorkerSpec): in every stored job record, resultImageBase64 is
\* present if and only if status is completed, and error is present only if
\* status is failed.
C34_ResultIffCompleted ==
    \A j \in JobIds :
        mem[j] # NoEntry =>
            /\ (mem[j].value.result # 0) <=> (mem[j].value.status = "completed")
            /\ (mem[j].value.error # "") => (mem[j].value.status = "failed")

\* C34, the case: a stored record is processing or failed and carries the
\* result image of an earlier run.
C34_ResultOnUnfinishedJob ==
    \E j \in JobIds :
        /\ mem[j] # NoEntry
        /\ mem[j].value.status \in {"processing", "failed"}
        /\ mem[j].value.result # 0

-----------------------------------------------------------------------------
(* Claims about the overlay precompute, checked under OverlaySpec          *)

\* C10 (OverlaySpec): a build started before a new scan started or a mask override was
\* set writes, after that invalidation, neither progress nor a result nor
\* an error into overlayAssets, overlayStatus or overlayProgress.
C10_NoStaleOverlayWrite ==
    lastOverlayWrite.kind # "none" => lastOverlayWrite.started = lastOverlayWrite.at

\* C10, the case of rebuildOverlays: the result of a rebuild that was started
\* before a mask override was set has just been stored, and reads as ready.
C10_StaleRebuildStored ==
    /\ lastOverlayWrite.by = "rebuild"
    /\ lastOverlayWrite.kind = "result"
    /\ lastOverlayWrite.started < lastOverlayWrite.at
    /\ overlayStatus = "ready"
    /\ \E a \in overlayAssets : a.inputs.masks # maskOverrides

\* C11 (OverlayFairSpec): a session whose overlayStatus is building, with
\* scanStatus ready, eventually has overlayStatus ready or error, unless a
\* new scan starts, a mask override is set or the session is reset first.
C11_BuildingEnds ==
    \A e \in 0..(MaxPicks + MaxOverrides) :
        (overlayStatus = "building" /\ epoch = e /\ scanStatus = "ready") ~>
            (overlayStatus \in {"ready", "error"} \/ epoch # e \/ scanStatus # "ready")

\* C11, the case: the effect's own build was cancelled by the cleanup that
\* followed the effect's setS(building); it has returned without a write and
\* no build is left, while overlayStatus reads building.
C11_StuckBuilding ==
    /\ overlayStatus = "building"
    /\ ScanUsable
    /\ builds = {}
    /\ ~effectDue
    /\ overlayAssets = {}
    /\ rebuilds = 0

C31_ScanIsOfCurrentPhoto ==
    (inflightScan = 0 /\ scanStatus = "ready" /\ modules # 0) => modules = beforeSrc

\* C31, the case: the second photo was picked while the scan of the first
\* was in flight; the session is ready with the scan of the first photo.
C31_ScanOfEarlierPhoto ==
    /\ inflightScan = 0
    /\ scanStatus = "ready"
    /\ picks = 2
    /\ beforeSrc = 2
    /\ modules = 1

\* C32 (SessionSpec): after resetAll, no result of a scan that was started
\* before the reset is written into the session: while that scan is in
\* flight (scanStatus idle with a scan in flight arises from resetAll only,
\* and no new scan can start), the scan fields keep their reset values and
\* scanStatus stays idle.
C32_NoScanResultAfterReset ==
    [][(scanStatus = "idle" /\ inflightScan # 0) =>
          (scanStatus' = "idle" /\ modules' = 0)]_vars

\* C32, the case: the session was reset while a scan was in flight (no photo
\* is held), and the scan's result was stored all the same.
C32_ResultStoredAfterReset ==
    /\ inflightScan = 0
    /\ scanStatus = "ready"
    /\ beforeSrc = 0
    /\ modules # 0

\* C36 (OverlaySpec): in every reachable session state, overlayStatus = idle implies that
\* overlayAssets is empty and overlayProgress is 0, overlayStatus = ready
\* implies overlayProgress = 1, and overlayProgress lies in [0, 1]
\* (overlayProgress is counted in units of 1 / MaxAssets).
C36_OverlayFieldsAgree ==
    /\ overlayStatus = "idle" => (overlayAssets = {} /\ overlayProgress = 0)
    /\ overlayStatus = "ready" => overlayProgress = MaxAssets
    /\ overlayProgress \in 0..MaxAssets

\* C36 witness: a rebuild stored its assets; the session is ready with
\* progress MaxAssets.
C36_Witness ==
    /\ overlayStatus = "ready"
    /\ overlayAssets # {}
    /\ overlayProgress = MaxAssets
    /\ lastOverlayWrite.by = "rebuild"
    /\ lastOverlayWrite.kind = "result"

-----------------------------------------------------------------------------
(* Claims about buildOverlayAssetsClient, checked under BakeSpec           *)

\* C12 (BakeSpec): within one run the values passed to onProgress are
\* non-decreasing and lie in [0, 1]; a module skipped for lack of a mask
\* adds its option count to done, and the value reported is done / total;
\* the last value reported by a run that returned is exactly 1.
C12_ProgressMonotone ==
    /\ \A i \in 1..Len(reported) :
          /\ reported[i].den > 0
          /\ 0 <= reported[i].num
          /\ reported[i].num <= reported[i].den
    /\ \A i \in 1..(Len(reported) - 1) :
          reported[i].num * reported[i + 1].den <= reported[i + 1].num * reported[i].den
    /\ bakeEv.kind = "skip" =>
          /\ done = bakeEv.before + bakeEv.options
          /\ reported[Len(reported)] = Progress(bakeEv.before + bakeEv.options, total)
    /\ bakePc.phase = "returned" =>
          /\ reported # <<>>
          /\ reported[Len(reported)].num = reported[Len(reported)].den

\* C12 witness: a run over two overlay modules returned; the first module
\* had no mask and its two options were skipped (progress 2/3), the second
\* was baked (3/3), and the final value is 1.
C12_Witness ==
    /\ bakePc.phase = "returned"
    /\ total = 3
    /\ reported = <<[num |-> 2, den |-> 3], [num |-> 3, den |-> 3], [num |-> 1, den |-> 1]>>
    /\ Cardinality(assets) = 1

\* The elements of the scene a module paints, and whether the mask editor
\* saved an override for one of them.
Overridden(featureId) ==
    \E e \in args.scene : e.id \in args.maskOverrides /\ FeatureOfElement(e.id) = featureId

\* C14, the bake (BakeSpec): every asset baked for a feature for which a mask
\* override was saved has its mask from the override, not from the scene
\* polygons.
C14_BakeUsesOverride ==
    /\ \A a \in assets : \A o \in a.outByOpt :
          Overridden(a.featureId) => o.from = "override"
    /\ (bakePc.phase = "option" /\ Overridden(overlayModules(args.modules)[bakePc.m].featureId))
          => bakePc.maskCanvas.from = "override"

\* C14, the case: the run returned the asset of walls_paint, masked by the
\* polygon of walls_0, although the override of walls_0 was passed in.
C14_PolygonsDespiteOverride ==
    /\ bakePc.phase = "returned"
    /\ "walls_0" \in args.maskOverrides
    /\ \E a \in assets : /\ a.featureId = "walls_paint"
                         /\ \E o \in a.outByOpt : o.from = "polygons" /\ o.inside = {"p1"}

\* The scenario of C29: the modules are walls_paint and flooring with all
\* their options, the scene has a walls and a floor element with polygon
\* masks, no mask is overridden, every canvas got its 2d context (each
\* module has its entry and every option was counted), and the run returned.
WallsAndFloorBaked ==
    /\ bakePc.phase = "returned"
    /\ done = total
    /\ {a.featureId : a \in assets} = {"walls_paint", "flooring"}
    /\ args.maskOverrides = {}
    /\ {e.type : e \in args.scene} = {"walls", "floor"}
    /\ \A e \in args.scene : e.points >= 3
    /\ Len(args.modules) = 2
    /\ {args.modules[i].featureId : i \in DOMAIN args.modules} = {"walls_paint", "flooring"}
    /\ \A i \in DOMAIN args.modules : args.modules[i].options = MaxOptions
\* The (featureId, optionId) pairs of the returned assets.
AssetPairs == UNION {{<<a.featureId, o.opt>> : o \in a.outByOpt} : a \in assets}

\* C29 (BakeSpec): with selections for walls = dark and flooring = light on
\* a scan whose surfaces are only walls and floor, the overlay-asset set
\* produced for the overlay-mode modules contains exactly those two
\* (featureId, optionId) pairs and no other pair. The options are numbered
\* in the order of the catalog (light first, dark last).
C29_AssetsAreTheSelectedPairs ==
    WallsAndFloorBaked =>
        AssetPairs = {<<"walls_paint", MaxOptions>>, <<"flooring", 1>>}

\* C29, the case: the run over walls_paint and flooring returned assets for
\* options nobody selected, light walls and dark flooring among them.
C29_UnselectedOptionsBaked ==
    /\ WallsAndFloorBaked
    /\ <<"walls_paint", 1>> \in AssetPairs
    /\ <<"flooring", MaxOptions>> \in AssetPairs
    /\ <<"walls_paint", MaxOptions>> \in AssetPairs
    /\ <<"flooring", 1>> \in AssetPairs

-----------------------------------------------------------------------------
(* Claims about the live compositor, checked under DrawSpec                *)

\* C15 (DrawSpec): an element whose (feature, selected option) has a ready
\* precomputed asset is drawn from that cached asset, not built on the fly.
C15_ReadyAssetDrawnDirectly ==
    \A d \in drawn : <<d.feature, d.opt>> \in drawArgs.ready => d.source = "cached"

\* C15, the case: the asset of (walls_paint, option 1) is ready, option 1 is
\* selected, and the pass built the mask of walls_0 and the fill on the fly.
C15_BuiltOnTheFlyAlthoughReady ==
    /\ drew
    /\ <<"walls_paint", 1>> \in drawArgs.ready
    /\ \E d \in drawn : /\ d.feature = "walls_paint" /\ d.opt = 1
                        /\ d.source = "onthefly" /\ d.mask = "polygon"

\* C16, the compositor (DrawSpec): a feature all of whose elements have a
\* polygon of fewer than 3 points, and no mask override, puts no fill on
\* the canvas.
C16_DegeneratePolygonSkipped ==
    \A f \in OverlayFeatures :
        LET elems == {e \in drawArgs.scene : FeatureOfElement(e.id) = f}
        IN  (drew /\ \A e \in elems : e.points < 3 /\ e.id \notin drawArgs.maskOverrides)
                => \A p \in Pixels : \A fill \in canvas[p] : fill.feature # f

\* C16, the case: walls_0 has a polygon of 2 points and the fill of
\* walls_paint covers the whole frame.
C16_DegenerateFillsFrame ==
    /\ drew
    /\ \E e \in drawArgs.scene : e.id = "walls_0" /\ e.points = 2
    /\ "walls_0" \notin drawArgs.maskOverrides
    /\ \A p \in Pixels : \E fill \in canvas[p] : fill.feature = "walls_paint"

\* C17 (DrawSpec): after a pass that drew two or more elements, each with
\* its mask, every drawn fill shows on every pixel of its own mask and no
\* pixel outside the union of the masks shows a fill.
C17_EveryOverlayKept ==
    (drew /\ Cardinality(drawn) >= 2 /\ \A d \in drawn : d.mask # "none") =>
        /\ \A d \in drawn : \A p \in d.inside :
              [feature |-> d.feature, opt |-> d.opt] \in canvas[p]
        /\ \A p \in Pixels \ UNION {d.inside : d \in drawn} : canvas[p] = {}

\* C17, the case: walls_paint and flooring were both drawn with their
\* polygon masks, and the pixel of the walls shows nothing.
C17_EarlierOverlayErased ==
    /\ drew
    /\ \E d \in drawn : d.feature = "walls_paint" /\ d.mask = "polygon" /\ d.inside = {"p1"}
    /\ \E d \in drawn : d.feature = "flooring" /\ d.mask = "polygon" /\ d.inside = {"p2"}
    /\ canvas["p1"] = {}

-----------------------------------------------------------------------------
(* Claims about the memo of polygon masks, checked under CompositorSpec    *)

-----------------------------------------------------------------------------
(* Claims about the build page's mount on the session, checked under       *)
(* MountSpec                                                               *)

\* C38 (MountSpec): the step in which the build page mounts, which writes
\* the session's own mask-override map back into the session, leaves
\* overlayAssets, overlayStatus and overlayProgress as they were.
C38_MountKeepsOverlays ==
    [][(page = "prompt" /\ page' = "build" /\ maskOverrides' = maskOverrides) =>
           (overlayAssets' = overlayAssets /\ overlayStatus' = overlayStatus /\
            overlayProgress' = overlayProgress)]_vars

\* C38, the case: one photo, scanned; a build stored its assets, no override
\* was saved and nothing was invalidated since; the build page is mounted
\* and the session is idle without assets.
C38_MountWipedOverlays ==
    /\ page = "build"
    /\ picks = 1
    /\ overrides = 0
    /\ scanStatus = "ready"
    /\ inflightScan = 0
    /\ lastOverlayWrite.kind = "result"
    /\ lastOverlayWrite.at = epoch
    /\ overlayStatus = "idle"
    /\ overlayAssets = {}

=============================================================================
